---- MODULE Spec2Model ----
(***************************************************************************)
(* Model of the http_event_collector classes of the splunk returners       *)
(* (splunk_nova_return.py, splunk_pulsar_return.py) and of the log handler *)
(* (splunklogging.py): byte-budgeted batching (batchEvent) and delivery    *)
(* with endpoint health, retry and failover (flushBatch).                  *)
(***************************************************************************)
EXTENDS Integers, Sequences, FiniteSets, TLC

VARIABLES
    cls,                \* which http_event_collector class: "nova", "pulsar", "logging"
    RETRY,              \* module-level RETRY flag of the returner module
    returner_retry_max, \* value of config.get('returner_retry_max')
    behaviour,          \* environment: the responses each endpoint may give
    batchEvents,        \* self.batchEvents: pending serialized events
    currentByteLength,  \* self.currentByteLength
    server_uri,         \* self.server_uri: list of [url, healthy]
    pc,                 \* position of the caller inside batchEvent / flushBatch
    payload,            \* the event batchEvent is appending while it flushes
    server,             \* flushBatch: index of the loop variable `server`
    retries,            \* flushBatch: local retries
    max_retries,        \* flushBatch: local max_retries
    retry_sleep,        \* flushBatch: local retry_sleep
    success,            \* flushBatch: local success
    response,           \* flushBatch: outcome of the latest requests.post ("none" outside the loop)
    nextId,             \* number of events handed to batchEvent so far, plus one
    requests,           \* history: the requests of the flushBatch call in progress
    flushed,            \* history: one entry per finished flushBatch of a non-empty batch
    marked,             \* history: urls whose health flag has been set to False
    oversized,          \* history: some event's serialized length exceeded maxByteLength
    flushCall,          \* the owner's latest call, if it was flushBatch: events pending, value returned
    trio,               \* comparison: one flushBatch state per class, fed the same responses
    divergent,          \* comparison: some response was a timeout, a connection or an HTTP error
    flushNo,            \* comparison: number of flushBatch calls started
    ret,                \* returner: shape of the argument ret
    faults,             \* returner: the steps at which the environment fails
    rpc,                \* returner: position inside returner(ret)
    raised,             \* returner: the exception raised inside the try block ("none": none)
    posted,             \* returner: outcome of the request of the final flushBatch
    object_to_be_masked,\* masking: the events list, changed in place
    original,           \* masking, history: the events list as it was handed in
    mask,               \* masking: what loading the mask files gives
    mpc,                \* masking: position inside mask_passwords_inplace
    ruleNo,             \* masking: index of the rule the loop is at
    mexc,               \* masking: the exception raised inside the try block ("none": none)
    calls,              \* masking twice: how often the rule has been applied
    once,               \* masking twice, history: the events after the first application
    fn,                 \* helpers: the helper function that is called ("none": none)
    args,               \* helpers: the arguments as they were handed in
    argsAfter,          \* helpers: the arguments as the call left them
    out,                \* helpers: what the call returned or raised
    job,                \* returner calls in a row: the call that is running
    uses                \* returner calls in a row, history: one entry per flushBatch

batchVars == <<batchEvents, currentByteLength, payload, nextId>>
loopVars  == <<server, retries, max_retries, retry_sleep, success, response>>
confVars  == <<cls, RETRY, returner_retry_max, behaviour>>
histVars  == <<requests, flushed, marked, oversized>>
collectorVars == <<batchVars, loopVars, histVars, server_uri, pc, flushCall>>
equivVars == <<trio, divergent, flushNo>>
\* the variables the collector's own actions leave alone
returnerVars == <<ret, faults, rpc, raised, posted>>
maskVars == <<object_to_be_masked, original, mask, mpc, ruleNo, mexc>>
remaskVars == <<calls, once>>
helperVars == <<fn, args, argsAfter, out>>
jobVars == <<job, uses>>
restVars == <<equivVars, returnerVars, maskVars, remaskVars, helperVars, jobVars>>
\* what the comparison, the returner and the masking leave alone
outsideEquiv == <<confVars, collectorVars, returnerVars, maskVars, remaskVars, helperVars, jobVars>>
outsideReturner == <<confVars, collectorVars, equivVars, maskVars, remaskVars, helperVars, jobVars>>
outsideMask == <<confVars, collectorVars, equivVars, returnerVars, remaskVars, helperVars, jobVars>>
outsideHelpers == <<confVars, collectorVars, equivVars, returnerVars, maskVars, remaskVars, jobVars>>
outsideJobs == <<cls, returner_retry_max, behaviour, payload, loopVars, histVars, pc, flushCall,
                 equivVars, returnerVars, maskVars, remaskVars, helperVars>>
vars == <<confVars, collectorVars, restVars>>

----------------------------------------------------------------------------
(* Bounds of the model *)

\* maximum number of events handed to batchEvent in one session
MaxEvents == 3
\* max_bytes handed to the constructor (scaled down from _max_content_bytes)
maxByteLength == 4
\* largest configured returner_retry_max
MaxRetryMax == 2
\* length of the "time" field that nova/logging add after measuring the payload
TimeFieldLen == 1

\* default of config.get('returner_retry_sleep', 15)
returner_retry_sleep == 15

Classes == {"nova", "pulsar", "logging"}
Urls == {"A", "B"}
\* configured endpoint lists (http_event_server is one server or a list)
ServerLists == {<<"A">>, <<"A", "B">>}

\* outcome of requests.post + raise_for_status
FailKinds == {"Timeout", "ConnectionError", "HTTPError", "RequestException", "Exception"}
Outcomes == {"ok"} \cup FailKinds

\* payload lengths: small, just under the budget, over the budget
EventLens == {1, maxByteLength - 1, maxByteLength + 1}

NoEvent == [id |-> 0, len |-> 0, slen |-> 0]

RECURSIVE SumLen(_)
SumLen(s) == IF s = <<>> THEN 0 ELSE s[1].slen + SumLen(Tail(s))

\* the same sum over the lengths batchEvent measured
RECURSIVE SumPayloadLen(_)
SumPayloadLen(s) == IF s = <<>> THEN 0 ELSE s[1].len + SumPayloadLen(Tail(s))

Ids(s) == [i \in 1..Len(s) |-> s[i].id]
IdSet(s) == {s[i].id : i \in 1..Len(s)}
\* the elements of a sequence of ids
BodyIds(s) == {s[i] : i \in 1..Len(s)}

----------------------------------------------------------------------------
(* http_event_collector.__init__ *)

\* the owner's latest call was not flushBatch
NoFlushCall == [pending |-> -1, ret |-> "none"]

InitServerUri(servers) == [i \in 1..Len(servers) |-> [url |-> servers[i], healthy |-> TRUE]]

AnyBehaviour == [u \in Urls |-> Outcomes]
\* endpoint A always fails the same way, endpoint B always accepts
FailoverBehaviour(k) == [u \in Urls |-> IF u = "A" THEN {k} ELSE {"ok"}]
Behaviours == {AnyBehaviour} \cup {FailoverBehaviour(k) : k \in FailKinds}

\* the attributes and the history of a collector nobody has called yet
CollectorNew ==
    /\ batchEvents = <<>>
    /\ currentByteLength = 0
    /\ pc = "idle"
    /\ payload = NoEvent
    /\ server = 0
    /\ retries = -1
    /\ max_retries = 0
    /\ retry_sleep = returner_retry_sleep
    /\ success = FALSE
    /\ response = "none"
    /\ nextId = 1
    /\ requests = <<>>
    /\ flushed = <<>>
    /\ marked = {}
    /\ oversized = FALSE
    /\ flushCall = NoFlushCall

\* the flushBatch state of one class before the first call
NewFlushState(servers) ==
    [uris |-> InitServerUri(servers), server |-> 0, retries |-> -1,
     running |-> FALSE, reqs |-> <<>>]

\* no comparison of the classes is going on
EquivOff ==
    /\ trio = [c \in Classes |-> NewFlushState(<<>>)]
    /\ divergent = FALSE
    /\ flushNo = 0

\* no call of a returner function is going on
ReturnerOff ==
    /\ ret = "dict"
    /\ faults = {}
    /\ rpc = "off"
    /\ raised = "none"
    /\ posted = "none"

\* the mask configuration when no file has been loaded
NoMask == [load |-> "ok", mask_by |-> <<>>, blacklisted_strings |-> <<>>,
           blacklisted_objects |-> <<>>]

\* no call of mask_passwords_inplace is going on
MaskOff ==
    /\ object_to_be_masked = <<>>
    /\ original = <<>>
    /\ mask = NoMask
    /\ mpc = "off"
    /\ ruleNo = 0
    /\ mexc = "none"

\* no rule is being applied a second time
RemaskOff ==
    /\ calls = 0
    /\ once = <<>>

\* the call of a helper that has not returned yet
NotCalled == [ret |-> <<>>, exc |-> "pending"]

\* no helper function is being called
HelpersOff ==
    /\ fn = "none"
    /\ args = <<>>
    /\ argsAfter = <<>>
    /\ out = NotCalled

\* the returner has not been called yet
NoJob == [no |-> 0, has |-> FALSE, retry |-> FALSE, left |-> 0, at |-> "returned"]

\* no sequence of returner calls is going on
JobsOff ==
    /\ job = NoJob
    /\ uses = <<>>

Init ==
    /\ cls \in Classes
    /\ RETRY \in (IF cls = "logging" THEN {FALSE} ELSE BOOLEAN)
    /\ returner_retry_max \in (IF cls = "logging" THEN {0} ELSE 0..MaxRetryMax)
    /\ behaviour \in Behaviours
    /\ \E servers \in ServerLists : server_uri = InitServerUri(servers)
    /\ CollectorNew
    /\ EquivOff
    /\ ReturnerOff
    /\ MaskOff
    /\ RemaskOff
    /\ HelpersOff
    /\ JobsOff

----------------------------------------------------------------------------
(* batchEvent *)

\* length of the string batchEvent appends: nova and logging measure the
\* payload and then add the time field; pulsar adds the time first
SerializedLen(c, len) == IF c = "pulsar" THEN len ELSE len + TimeFieldLen

\* mutant: an event that cannot fit any batch does not trigger the flush
OverflowsIfFits(cur, len, max) == cur + len > max /\ len <= max

\* the overflow test of batchEvent
Overflows(cur, len, max) == cur + len > max

\* self.server_uri = [x for x in self.server_uri if x[1] is not False]
Eligible(uris) == SelectSeq(uris, LAMBDA x : x.healthy # FALSE)

\* mutant: the configured retries are used whatever the retry flag says
MaxRetriesIgnoringFlag(c, flag, cfg) == IF c # "logging" THEN cfg ELSE 0

\* max_retries = 0; if RETRY: max_retries = config.get('returner_retry_max', 3)
\* (the log handler's flushBatch has no retry loop: one attempt per endpoint)
MaxRetriesFor(c, flag, cfg) == IF c # "logging" /\ flag THEN cfg ELSE 0

\* flushBatch up to the first request: filter the endpoints, set the locals
FlushEnter ==
    /\ server_uri' = Eligible(server_uri)
    /\ success' = FALSE
    /\ response' = "none"
    /\ retries' = -1
    /\ max_retries' = MaxRetriesFor(cls, RETRY, returner_retry_max)
    /\ retry_sleep' = returner_retry_sleep
    /\ requests' = <<>>
    /\ IF Len(Eligible(server_uri)) = 0
         THEN server' = 0 /\ pc' = "clear"
         ELSE server' = 1 /\ pc' = "flush"
    /\ UNCHANGED <<flushed, marked>>

BatchEvent(len) ==
    /\ pc = "idle"
    /\ nextId <= MaxEvents
    /\ nextId' = nextId + 1
    /\ oversized' = (oversized \/ SerializedLen(cls, len) > maxByteLength)
    /\ flushCall' = NoFlushCall
    /\ UNCHANGED restVars
    /\ LET e == [id |-> nextId, len |-> len, slen |-> SerializedLen(cls, len)]
       IN  IF Overflows(currentByteLength, len, maxByteLength)
             THEN IF batchEvents # <<>>
                    THEN /\ FlushEnter
                         /\ payload' = e
                         /\ UNCHANGED <<batchEvents, currentByteLength>>
                    ELSE \* flushBatch returns at once: nothing is pending
                         /\ batchEvents' = Append(batchEvents, e)
                         /\ UNCHANGED <<currentByteLength, payload, loopVars,
                                        requests, flushed, marked, server_uri, pc>>
             ELSE /\ currentByteLength' = currentByteLength + len
                  /\ batchEvents' = Append(batchEvents, e)
                  /\ UNCHANGED <<payload, loopVars, requests, flushed, marked,
                                 server_uri, pc>>
    /\ UNCHANGED confVars

\* batchEvent after its call of flushBatch has returned: append the event
BatchAppend ==
    /\ pc = "append"
    /\ batchEvents' = Append(batchEvents, payload)
    /\ payload' = NoEvent
    /\ pc' = "idle"
    /\ UNCHANGED <<confVars, currentByteLength, nextId, loopVars, histVars, server_uri,
                   flushCall, restVars>>

----------------------------------------------------------------------------
(* flushBatch *)

\* mutant: flushBatch returns its local success
ReturnValueSuccess(s) == IF s THEN "True" ELSE "False"

\* the value flushBatch hands to its caller: the method has no return
\* statement, so the call evaluates to None on every path
ReturnValue(s) == "None"

\* mutant: the unhealthy endpoints are dropped before the batch is looked at
EndpointsFilteredFirst(uris) == Eligible(uris)

\* the endpoint list after flushBatch found nothing pending: the filter is
\* inside the branch of `if len(self.batchEvents) > 0`
EndpointsAfterEmptyFlush(uris) == uris

\* a call of flushBatch by the owner of the collector
FlushBatch ==
    /\ pc = "idle"
    /\ IF batchEvents # <<>>
         THEN /\ FlushEnter
              /\ flushCall' = [pending |-> Len(batchEvents), ret |-> "running"]
              /\ UNCHANGED <<confVars, batchVars, oversized>>
         ELSE /\ server_uri' = EndpointsAfterEmptyFlush(server_uri)
              /\ flushCall' = [pending |-> 0, ret |-> ReturnValue(FALSE)]
              /\ UNCHANGED <<confVars, batchVars, loopVars, histVars, pc>>
    /\ UNCHANGED restVars

\* if retries != 0: time.sleep(retry_sleep)
ShouldSleep(r) == r # 0

\* the separator of the request body; the events are the positive ids
Space == 0

RECURSIVE JoinReversed(_)
\* mutant: the events are joined last first
JoinReversed(s) ==
    IF Len(s) <= 1 THEN s
    ELSE JoinReversed(Tail(s)) \o <<Space, Head(s)>>

RECURSIVE Join(_)
\* ' '.join(self.batchEvents): the events in list order, a separator between
\* two neighbours, nothing before the first and nothing after the last
Join(s) ==
    IF Len(s) <= 1 THEN s
    ELSE <<Head(s), Space>> \o Join(Tail(s))

\* mutant: every failure of a request marks the endpoint unhealthy
NewHealthMarkAll(c, o, h) ==
    IF o = "ok" THEN TRUE ELSE IF o = "Exception" THEN h ELSE FALSE

\* mutant: an accepted request leaves the health flag as it was
NewHealthNotRestored(c, o, h) ==
    IF o = "ok" THEN h
    ELSE IF c = "logging"
      THEN IF o = "Exception" THEN h ELSE FALSE
      ELSE IF o = "RequestException" THEN FALSE ELSE h

\* the health flag after a request with outcome o (the except clauses in order)
NewHealth(c, o, h) ==
    IF o = "ok" THEN TRUE
    ELSE IF c = "logging"
      THEN IF o = "Exception" THEN h ELSE FALSE
      ELSE IF o = "RequestException" THEN FALSE ELSE h

\* mutant: the loop test is off by one (retries <= max_retries)
RetryAgainOffByOne(o, r, max) == o # "ok" /\ r <= max

\* the retry loop goes on: no break, and retries < max_retries
RetryAgain(o, r, max) == o # "ok" /\ r < max

\* mutant: the endpoint loop is not left after a success
StopsFlushNever(s) == FALSE

\* if success: break (returners); break (log handler)
StopsFlush(s) == s

\* one pass of the retry loop: sleep if this is a retry, post the batch, handle the outcome
Attempt ==
    /\ pc = "flush"
    /\ LET r == retries + 1
           url == server_uri[server].url
           slept == IF ShouldSleep(r) THEN retry_sleep ELSE 0
       IN  \E o \in behaviour[url] :
             LET h == NewHealth(cls, o, server_uri[server].healthy)
                 s == success \/ o = "ok"
             IN  /\ server_uri' = [server_uri EXCEPT ![server].healthy = h]
                 /\ success' = s
                 /\ response' = o
                 /\ requests' = Append(requests, [url |-> url, slept |-> slept,
                                                  ok |-> (o = "ok"),
                                                  body |-> Ids(batchEvents),
                                                  data |-> Join(Ids(batchEvents))])
                 /\ marked' = IF o # "ok" /\ h = FALSE THEN marked \cup {url} ELSE marked
                 /\ IF RetryAgain(o, r, max_retries)
                      THEN /\ retries' = r
                           /\ UNCHANGED <<server, pc>>
                      ELSE IF StopsFlush(s) \/ server = Len(server_uri)
                             THEN /\ retries' = r
                                  /\ pc' = "clear"
                                  /\ UNCHANGED server
                             ELSE /\ server' = server + 1
                                  /\ retries' = -1
                                  /\ UNCHANGED pc
    /\ UNCHANGED <<confVars, batchVars, max_retries, retry_sleep, flushed, oversized,
                   flushCall, restVars>>

\* mutant: the batch is kept for a later flush when no endpoint accepted it
AfterFlushKeepFailed(batch, ok) == IF ok THEN <<>> ELSE batch

\* self.batchEvents = [] after the loop
AfterFlush(batch, ok) == <<>>

\* mutant: the counter is reset only when the batch was delivered
CounterAfterFlushKeepFailed(cur, ok) == IF ok THEN 0 ELSE cur

\* self.currentByteLength = 0 after the loop
CounterAfterFlush(cur, ok) == 0

\* the end of flushBatch: clear the batch and the counter, return to the caller
FlushClear ==
    /\ pc = "clear"
    /\ batchEvents' = AfterFlush(batchEvents, success)
    /\ currentByteLength' = CounterAfterFlush(currentByteLength, success)
    /\ flushed' = Append(flushed, [body |-> Ids(batchEvents), success |-> success])
    /\ requests' = <<>>
    /\ response' = "none"
    /\ pc' = IF payload # NoEvent THEN "append" ELSE "idle"
    /\ flushCall' = IF flushCall.ret = "running"
                      THEN [flushCall EXCEPT !.ret = ReturnValue(success)]
                      ELSE flushCall
    /\ UNCHANGED <<confVars, payload, nextId, server, retries, max_retries, retry_sleep,
                   success, marked, oversized, server_uri, restVars>>

----------------------------------------------------------------------------

Next ==
    \/ \E len \in EventLens : BatchEvent(len)
    \/ BatchAppend
    \/ FlushBatch
    \/ Attempt
    \/ FlushClear

Spec == Init /\ [][Next]_vars

----------------------------------------------------------------------------
(* The flushBatch methods of the three classes side by side *)

\* number of flushBatch calls compared
MaxFlushes == 2

\* one pass of the loop body of class c from state st with outcome o: the
\* same steps as Attempt, on a state of its own
FlushStep(c, st, o) ==
    LET r == st.retries + 1
        u == st.uris[st.server]
        slept == IF ShouldSleep(r) THEN returner_retry_sleep ELSE 0
        sent == [st EXCEPT !.uris[st.server].healthy = NewHealth(c, o, u.healthy),
                           !.reqs = Append(@, [url |-> u.url, slept |-> slept]),
                           !.retries = r]
    IN  IF RetryAgain(o, r, MaxRetriesFor(c, RETRY, returner_retry_max))
          THEN sent
          ELSE IF StopsFlush(o = "ok") \/ st.server = Len(st.uris)
                 THEN [sent EXCEPT !.running = FALSE]
                 ELSE [sent EXCEPT !.server = @ + 1, !.retries = -1]

\* the head of flushBatch of a non-empty batch: filter, then enter the loop
FlushStart(st) ==
    LET uris == Eligible(st.uris)
    IN  [uris |-> uris, server |-> IF uris = <<>> THEN 0 ELSE 1, retries |-> -1,
         running |-> uris # <<>>, reqs |-> <<>>]

InitEquiv ==
    /\ cls = "nova"
    /\ RETRY \in BOOLEAN
    /\ returner_retry_max \in 0..MaxRetryMax
    /\ behaviour = AnyBehaviour
    /\ server_uri = <<>>
    /\ CollectorNew
    /\ ReturnerOff
    /\ MaskOff
    /\ RemaskOff
    /\ HelpersOff
    /\ JobsOff
    /\ \E servers \in ServerLists : trio = [c \in Classes |-> NewFlushState(servers)]
    /\ divergent = FALSE
    /\ flushNo = 0

\* the three collectors are handed the same batch and flushBatch is called
EquivStart ==
    /\ flushNo < MaxFlushes
    /\ \A c \in Classes : ~trio[c].running
    /\ trio' = [c \in Classes |-> FlushStart(trio[c])]
    /\ flushNo' = flushNo + 1
    /\ UNCHANGED <<outsideEquiv, divergent>>

\* the next response of the sequence: every collector still in its loop
\* posts its next request and gets this response
EquivRespond(o) ==
    /\ \E c \in Classes : trio[c].running
    /\ trio' = [c \in Classes |->
                  IF trio[c].running THEN FlushStep(c, trio[c], o) ELSE trio[c]]
    /\ divergent' = (divergent \/ o \in {"Timeout", "ConnectionError", "HTTPError"})
    /\ UNCHANGED <<outsideEquiv, flushNo>>

NextEquiv ==
    \/ EquivStart
    \/ \E o \in Outcomes : EquivRespond(o)

SpecEquiv == InitEquiv /\ [][NextEquiv]_vars

----------------------------------------------------------------------------
(* returner(ret) of splunk_nova_return.py and splunk_pulsar_return.py *)

\* the argument: a job return with all keys, one with an empty 'return',
\* one without 'jid' or 'retry', one whose 'return' is not of the expected
\* type, and a list of returns (batching)
RetShapes == {"dict", "dict_empty_return", "dict_missing_key", "dict_bad_return", "list"}

\* the steps at which a lookup or a conversion can fail whatever ret is
FaultSteps == {"options", "grains", "normalize", "batchEvent", "flushBatch"}

\* the exceptions those steps raise; all of them derive from Exception
ExcKinds == {"KeyError", "TypeError", "IndexError", "AttributeError", "Exception"}

\* mutant: the handler is for lookup errors only
CatchesLookupErrors(e) == e \in {"KeyError", "IndexError"}

\* except Exception: the clause takes every exception derived from Exception
Catches(e) == e \in ExcKinds \cup FailKinds

\* the exceptions a step can raise ("none": it can complete)
Raises(c, step, r, f) ==
    CASE step = "options" ->
           IF "options" \in f THEN {"KeyError", "AttributeError", "TypeError"} ELSE {"none"}
      [] step = "input" ->
           IF r = "list" THEN {"TypeError"}
           ELSE IF r = "dict_missing_key" THEN {"KeyError"}
           ELSE {"none"}
      [] step = "grains" ->
           IF "grains" \in f THEN {"KeyError", "Exception"} ELSE {"none"}
      [] step = "normalize" ->
           IF "normalize" \in f THEN {"KeyError", "TypeError", "AttributeError"}
           ELSE IF c = "pulsar" /\ r = "dict_bad_return" THEN {"TypeError"}
           ELSE {"none"}
      [] step = "batchEvent" ->
           IF "batchEvent" \in f THEN {"TypeError"} ELSE {"none"}
      [] step = "flushBatch" ->
           IF "flushBatch" \in f THEN {"KeyError"} ELSE {"none"}

\* the step after a completed step (the try block in program order)
After(c, step, r) ==
    CASE step = "entry" ->
           IF c = "pulsar" /\ r = "dict_empty_return" THEN "returned" ELSE "options"
      [] step = "options" -> "input"
      [] step = "input" -> "grains"
      [] step = "grains" ->
           IF c = "nova" /\ r = "dict_bad_return" THEN "returned" ELSE "normalize"
      [] step = "normalize" -> "batchEvent"
      [] step = "batchEvent" -> "flushBatch"
      [] step = "flushBatch" -> "returned"

InitReturner ==
    /\ cls \in {"nova", "pulsar"}
    /\ RETRY = FALSE
    /\ returner_retry_max = 0
    /\ behaviour = AnyBehaviour
    /\ server_uri = <<>>
    /\ CollectorNew
    /\ EquivOff
    /\ MaskOff
    /\ RemaskOff
    /\ HelpersOff
    /\ JobsOff
    /\ ret \in RetShapes
    /\ faults \in SUBSET FaultSteps
    /\ rpc = "entry"
    /\ raised = "none"
    /\ posted = "none"

\* pulsar: if isinstance(ret, dict) and not ret.get('return'): return
ReturnerEnter ==
    /\ rpc = "entry"
    /\ rpc' = After(cls, "entry", ret)
    /\ UNCHANGED <<outsideReturner, ret, faults, raised, posted>>

\* one step of the try block before the final flush: it completes or raises
ReturnerStep ==
    /\ rpc \in {"options", "input", "grains", "normalize", "batchEvent"}
    /\ \E e \in Raises(cls, rpc, ret, faults) :
          IF e = "none"
            THEN rpc' = After(cls, rpc, ret) /\ UNCHANGED raised
            ELSE rpc' = "except" /\ raised' = e
    /\ UNCHANGED <<outsideReturner, ret, faults, posted>>

\* hec.flushBatch(): the lookup of the retry settings may raise; whatever
\* requests.post raises is taken by one of the clauses inside flushBatch
ReturnerFlush ==
    /\ rpc = "flushBatch"
    /\ \E e \in Raises(cls, rpc, ret, faults) :
          IF e = "none"
            THEN /\ \E o \in Outcomes : posted' = o
                 /\ rpc' = After(cls, rpc, ret)
                 /\ UNCHANGED raised
            ELSE /\ rpc' = "except" /\ raised' = e
                 /\ UNCHANGED posted
    /\ UNCHANGED <<outsideReturner, ret, faults>>

\* except Exception: log.exception(...), then the return after the try
\* statement; an exception no clause takes leaves the function
ReturnerExcept ==
    /\ rpc = "except"
    /\ rpc' = IF Catches(raised) THEN "returned" ELSE "propagated"
    /\ UNCHANGED <<outsideReturner, ret, faults, raised, posted>>

NextReturner ==
    \/ ReturnerEnter
    \/ ReturnerStep
    \/ ReturnerFlush
    \/ ReturnerExcept

SpecReturner == InitReturner /\ [][NextReturner]_vars

----------------------------------------------------------------------------
(* mask_passwords_inplace of nebula_osquery.py *)

\* largest number of rows of a query result
MaxRows == 3
\* largest number of rules in blacklisted_strings
MaxRules == 2
\* largest number of members of a JSON array in a column
MaxChildren == 2

\* column values: a column the row does not have, a number, a string (a
\* sequence of characters), an object (one node)
Absent == [t |-> "absent", s |-> <<>>, o |-> <<>>]
Num == [t |-> "num", s |-> <<>>, o |-> <<>>]
Str(s) == [t |-> "str", s |-> s, o |-> <<>>]
Obj(n) == [t |-> "obj", s |-> <<>>, o |-> <<n>>]
\* an object with a discriminating attribute and an attribute to hide
Node(d, k) == [disc |-> d, secret |-> k]

\* a row of a query result with the columns c (text) and j (decoded JSON)
Row(c, j) == [c |-> c, j |-> j]
\* query_result[column], Absent when `column not in query_result`
Cell(row, col) == IF col \in DOMAIN row THEN row[col] ELSE Absent

\* one entry of the list queries() returns: {name: {'data': rows, 'result': True}}
\* or, for a query that failed, {name: {'result': False, 'error': ...}}
Entry(n, rows) == [name |-> n, hasData |-> TRUE, data |-> rows]
FailedEntry(n) == [name |-> n, hasData |-> FALSE, data |-> <<>>]

\* a pattern "(p)(q)" of blacklisted_patterns; valid: re can compile it
Pattern(p, q) == [p |-> p, q |-> q, valid |-> TRUE]
BadPattern == [p |-> <<"p">>, q |-> <<"(">>, valid |-> FALSE]

RECURSIVE ReSubSecondGroup(_, _, _)
\* mutant: the replacement keeps the second group instead of the first
ReSubSecondGroup(pat, by, str) ==
    LET pq == pat.p \o pat.q
    IN  IF str = <<>> THEN <<>>
        ELSE IF Len(str) >= Len(pq) /\ SubSeq(str, 1, Len(pq)) = pq
               THEN pat.q \o by \o ReSubSecondGroup(pat, by, SubSeq(str, Len(pq) + 1, Len(str)))
               ELSE <<Head(str)>> \o ReSubSecondGroup(pat, by, Tail(str))

RECURSIVE ReSub(_, _, _)
\* re.sub(pattern + "()", r"\1" + mask_by + r"\3", value): from the left,
\* every occurrence of p q becomes p mask_by (group 3 is the empty group)
ReSub(pat, by, str) ==
    LET pq == pat.p \o pat.q
    IN  IF str = <<>> THEN <<>>
        ELSE IF Len(str) >= Len(pq) /\ SubSeq(str, 1, Len(pq)) = pq
               THEN pat.p \o by \o ReSub(pat, by, SubSeq(str, Len(pq) + 1, Len(str)))
               ELSE <<Head(str)>> \o ReSub(pat, by, Tail(str))

RECURSIVE SubAll(_, _, _)
\* for pattern in blacklisted_string['blacklisted_patterns']: value = re.sub(...)
SubAll(pats, by, str) ==
    IF pats = <<>> THEN [s |-> str, exc |-> "none"]
    ELSE IF ~Head(pats).valid THEN [s |-> str, exc |-> "re.error"]
    ELSE SubAll(Tail(pats), by, ReSub(Head(pats), by, str))

\* column not in query_result or not isinstance(query_result[column], basestring)
BadRow(row, col) == Cell(row, col).t # "str"

RECURSIVE MaskRows(_, _, _)
\* mutant: the row is skipped and the loop goes on with the next row
SkipBadRow(rows, rule, by) == <<Head(rows)>> \o MaskRows(Tail(rows), rule, by).rows

\* break: the row and all rows after it stay as they are
AfterBadRow(rows, rule, by) == rows

\* the loop over the rows of one query result for a blacklisted_strings rule
MaskRows(rows, rule, by) ==
    IF rows = <<>> THEN [rows |-> <<>>, exc |-> "none"]
    ELSE IF BadRow(Head(rows), rule.column)
      THEN [rows |-> AfterBadRow(rows, rule, by), exc |-> "none"]
    ELSE IF "blacklisted_patterns" \notin rule.keys
      THEN [rows |-> rows, exc |-> "KeyError"]
    ELSE LET sub == SubAll(rule.blacklisted_patterns, by, Head(rows)[rule.column].s)
         IN  IF sub.exc # "none"
               THEN [rows |-> rows, exc |-> sub.exc]
               ELSE LET rest == MaskRows(Tail(rows), rule, by)
                    IN  [rows |-> <<[Head(rows) EXCEPT ![rule.column] = Str(sub.s)]>>
                                    \o rest.rows,
                         exc |-> rest.exc]

\* a JSON array: its members are objects, arrays or other values
List(kids) == [t |-> "list", s |-> <<>>, o |-> kids]

\* key in object_to_mask
Has(n, a) == a \in DOMAIN n /\ n[a] # "absent"

\* mutant: every object counts as blacklisted
BlacklistedAny(n, rule) == TRUE

\* object_to_mask[attribute_to_check] in blacklisted_patterns
Blacklisted(n, rule) == n[rule.attribute_to_check] \in rule.blacklisted_patterns

\* for key in attributes_to_mask: if key in object_to_mask:
\* object_to_mask[key] = mask_by ("masked" stands for the value of mask_by)
MaskNode(n, rule) ==
    [a \in DOMAIN n |-> IF a \in rule.attributes_to_mask /\ Has(n, a) THEN "masked" ELSE n[a]]

RECURSIVE MaskObject(_, _), MaskChildren(_, _)
\* _recursively_mask_objects on the value of a column
MaskObject(v, rule) ==
    IF v.t = "list"
      THEN LET m == MaskChildren(v.o, rule) IN [v |-> List(m.kids), exc |-> m.exc]
    ELSE IF "attribute_to_check" \notin rule.keys THEN [v |-> v, exc |-> "KeyError"]
    ELSE IF v.t = "num" THEN [v |-> v, exc |-> "TypeError"]
    ELSE IF v.t = "str" THEN [v |-> v, exc |-> "none"]
    ELSE LET n == v.o[1]
         IN  IF ~Has(n, rule.attribute_to_check) THEN [v |-> v, exc |-> "none"]
             ELSE IF "blacklisted_patterns" \notin rule.keys THEN [v |-> v, exc |-> "KeyError"]
             ELSE IF ~Blacklisted(n, rule) THEN [v |-> v, exc |-> "none"]
             ELSE IF "attributes_to_mask" \notin rule.keys THEN [v |-> v, exc |-> "KeyError"]
             ELSE [v |-> Obj(MaskNode(n, rule)), exc |-> "none"]

\* for child in object_to_mask: _recursively_mask_objects(child, ...); what
\* has been masked when a child raises stays masked
MaskChildren(kids, rule) ==
    IF kids = <<>> THEN [kids |-> <<>>, exc |-> "none"]
    ELSE LET m == MaskObject(Head(kids), rule)
         IN  IF m.exc # "none"
               THEN [kids |-> <<m.v>> \o Tail(kids), exc |-> m.exc]
               ELSE LET rest == MaskChildren(Tail(kids), rule)
                    IN  [kids |-> <<m.v>> \o rest.kids, exc |-> rest.exc]

\* column not in query_result or (isinstance(query_result[column], basestring)
\* and query_result[column].strip() != '')
BadObjectRow(row, col) ==
    LET v == Cell(row, col)
    IN  v.t = "absent" \/ (v.t = "str" /\ v.s # <<>>)

RECURSIVE MaskObjectRows(_, _)
\* the loop over the rows of one query result for a blacklisted_objects rule
MaskObjectRows(rows, rule) ==
    IF rows = <<>> THEN [rows |-> <<>>, exc |-> "none"]
    ELSE IF BadObjectRow(Head(rows), rule.column) THEN [rows |-> rows, exc |-> "none"]
    ELSE LET m == MaskObject(Head(rows)[rule.column], rule)
         IN  IF m.exc # "none"
               THEN [rows |-> <<[Head(rows) EXCEPT ![rule.column] = m.v]>> \o Tail(rows),
                     exc |-> m.exc]
               ELSE LET rest == MaskObjectRows(Tail(rows), rule)
                    IN  [rows |-> <<[Head(rows) EXCEPT ![rule.column] = m.v]>> \o rest.rows,
                         exc |-> rest.exc]

\* query_ret['data'] of an entry the rule is applied to
DataLookup(r) == IF r.hasData THEN "none" ELSE "KeyError"

RECURSIVE MaskEntries(_, _, _, _)
\* for r in object_to_be_masked: the rows of r.get(query_name, {'data': []})
\* or, for query_name '*', of every value of r
MaskEntries(events, rule, by, kind) ==
    IF events = <<>> THEN [events |-> <<>>, exc |-> "none"]
    ELSE LET r == Head(events)
             skip == rule.query_name # "*" /\ r.name # rule.query_name
             m == IF kind = "string" THEN MaskRows(r.data, rule, by)
                  ELSE MaskObjectRows(r.data, rule)
             done == IF skip THEN r ELSE [r EXCEPT !.data = m.rows]
         IN  IF ~skip /\ DataLookup(r) # "none"
               THEN [events |-> events, exc |-> DataLookup(r)]
             ELSE IF ~skip /\ m.exc # "none"
               THEN [events |-> <<done>> \o Tail(events), exc |-> m.exc]
             ELSE LET rest == MaskEntries(Tail(events), rule, by, kind)
                  IN  [events |-> <<done>> \o rest.events, exc |-> rest.exc]

\* one pass of the loop over blacklisted_strings or blacklisted_objects
ApplyRule(events, rule, by, kind) ==
    IF {"query_name", "column"} \subseteq rule.keys
      THEN MaskEntries(events, rule, by, kind)
      ELSE [events |-> events, exc |-> "KeyError"]

\* the inputs -------------------------------------------------------------

\* mask.get('mask_by', '******'), one character in the model
MaskBy == <<"m">>
\* the pattern of the rules: "(p)(s)"
Good == Pattern(<<"p">>, <<"s">>)

StringKeys == {"query_name", "column", "blacklisted_patterns"}
StringRule(q, col, pats) ==
    [keys |-> StringKeys, query_name |-> q, column |-> col, blacklisted_patterns |-> pats]
\* for every query, for q1 only, for a column no row has, with a pattern
\* that does not compile, without the key 'column'
StringRules ==
    { StringRule("*", "c", <<Good>>),
      StringRule("q1", "c", <<Good>>),
      StringRule("*", "z", <<Good>>),
      StringRule("*", "c", <<BadPattern>>),
      [StringRule("*", "c", <<Good>>) EXCEPT !.keys = StringKeys \ {"column"}] }

ObjectRule(q, col) ==
    [keys |-> {"query_name", "column", "attribute_to_check", "blacklisted_patterns",
               "attributes_to_mask"},
     query_name |-> q, column |-> col, attribute_to_check |-> "disc",
     blacklisted_patterns |-> {"hit"}, attributes_to_mask |-> {"secret", "token"}]

SeqsUpTo(S, n) == UNION {[1..k -> S] : k \in 0..n}

MaskFile(strings, objects) ==
    [load |-> "ok", mask_by |-> MaskBy, blacklisted_strings |-> strings,
     blacklisted_objects |-> objects]

\* the mask files cannot be had: the top file cannot be read, or, with
\* nothing or with the rules of an earlier file merged, cp.cache_file gives
\* None or the file holds no mapping
FailedLoads ==
    {[NoMask EXCEPT !.load = "no_top"]}
      \cup {[m EXCEPT !.load = l] :
               m \in {NoMask, MaskFile(<<StringRule("*", "c", <<Good>>)>>,
                                       <<ObjectRule("*", "j")>>)},
               l \in {"no_file", "not_dict"}}

\* one rule
SimpleMasks ==
    { MaskFile(<<StringRule("*", "c", <<Good>>)>>, <<>>),
      MaskFile(<<StringRule("q1", "c", <<Good>>)>>, <<>>),
      MaskFile(<<>>, <<ObjectRule("*", "j")>>),
      MaskFile(<<StringRule("*", "c", <<Good>>)>>, <<ObjectRule("*", "j")>>) }

\* every list of string rules, with and without the object rule
AllMasks ==
    {MaskFile(ss, os) : ss \in SeqsUpTo(StringRules, MaxRules),
                        os \in {<<>>, <<ObjectRule("*", "j")>>}} \cup FailedLoads

Rows ==
    { Row(Str(<<"p", "s">>), Absent), Row(Str(<<"s">>), Absent), Row(Num, Absent),
      Row(Absent, Absent), Row(Absent, Obj(Node("hit", "clear"))), Row(Absent, Num),
      Row(Str(<<"p", "s">>), Obj(Node("hit", "clear"))) }

\* the second query: it failed, or it has one row
SecondEntries == {FailedEntry("q2"), Entry("q2", <<Row(Str(<<"p", "s">>), Obj(Node("hit", "clear")))>>)}

\* the dict of queries is walked in no particular order
BothOrders(a, b) == {<<a, b>>, <<b, a>>}

RichEvents ==
    UNION {BothOrders(Entry("q1", rows), e2) :
             rows \in SeqsUpTo(Rows, MaxRows), e2 \in SecondEntries}

FewEvents ==
    UNION {BothOrders(Entry("q1", <<row>>), e2) : row \in Rows, e2 \in SecondEntries}

\* objects with and without the discriminating attribute, with and without
\* the second attribute to hide, and with an attribute no rule names
RichNodes ==
    {[disc |-> d, secret |-> "clear", token |-> k, note |-> "clear"] :
        d \in {"hit", "miss", "absent"}, k \in {"clear", "absent"}}

HitNode == [disc |-> "hit", secret |-> "clear", token |-> "clear", note |-> "clear"]

FlatLists == {List(kids) : kids \in SeqsUpTo({Obj(n) : n \in RichNodes}, MaxChildren)}

\* an object, an array of objects, an array in an array, an array with a number
ObjectValues ==
    {Obj(n) : n \in RichNodes} \cup FlatLists
      \cup {List(<<l>>) : l \in FlatLists}
      \cup {List(<<Obj(HitNode), l>>) : l \in FlatLists}
      \cup {List(<<Obj(HitNode), Num>>), List(<<Obj(HitNode), Num, Obj(HitNode)>>)}

ObjectEvents == {<<Entry("q1", <<Row(Absent, v)>>)>> : v \in ObjectValues}

ObjectMasks ==
    { MaskFile(<<>>, <<ObjectRule("*", "j")>>), MaskFile(<<>>, <<ObjectRule("q1", "j")>>) }

MaskInputs ==
    (RichEvents \X SimpleMasks) \cup (FewEvents \X AllMasks) \cup (ObjectEvents \X ObjectMasks)

InitMask ==
    /\ cls = "nova"
    /\ RETRY = FALSE
    /\ returner_retry_max = 0
    /\ behaviour = AnyBehaviour
    /\ server_uri = <<>>
    /\ CollectorNew
    /\ EquivOff
    /\ ReturnerOff
    /\ \E in \in MaskInputs :
         /\ original = in[1]
         /\ object_to_be_masked = in[1]
         /\ mask = in[2]
    /\ mpc = "load"
    /\ ruleNo = 0
    /\ mexc = "none"
    /\ RemaskOff
    /\ HelpersOff
    /\ JobsOff

\* where the loops go after rule i of the loop `kind` has been applied
AfterRule(kind, i) ==
    IF kind = "strings" /\ i < Len(mask.blacklisted_strings)
      THEN [mpc |-> "strings", ruleNo |-> i + 1]
    ELSE IF kind = "strings" /\ mask.blacklisted_objects # <<>>
      THEN [mpc |-> "objects", ruleNo |-> 1]
    ELSE IF kind = "objects" /\ i < Len(mask.blacklisted_objects)
      THEN [mpc |-> "objects", ruleNo |-> i + 1]
    ELSE [mpc |-> "returned", ruleNo |-> i]

\* mutant: the handler is for re.error only
MaskCatchesReError(e) == e = "re.error"

\* except Exception as e: every exception raised in the try block
MaskCatches(e) == e \in {"KeyError", "TypeError", "re.error", "CommandExecutionError"}

\* mutant: what has been loaded is used whatever went wrong
LoadResultLenient(load) == "rules"

\* how the loading part ends: it goes on to the rule loops, it returns
\* (cp.cache_file gave None), or it raises (get_top_data failed, or
\* yaml.safe_load gave something that is no dict)
LoadResult(load) ==
    IF load = "ok" THEN "rules"
    ELSE IF load = "no_file" THEN "return"
    ELSE "raise"

\* get_top_data, cp.cache_file, yaml.safe_load, _dict_update
MaskLoad ==
    /\ mpc = "load"
    /\ IF LoadResult(mask.load) = "rules"
         THEN /\ mpc' = AfterRule("strings", 0).mpc
              /\ ruleNo' = AfterRule("strings", 0).ruleNo
              /\ UNCHANGED mexc
         ELSE IF LoadResult(mask.load) = "return"
           THEN mpc' = "returned" /\ UNCHANGED <<ruleNo, mexc>>
           ELSE mpc' = "except" /\ mexc' = "CommandExecutionError" /\ UNCHANGED ruleNo
    /\ UNCHANGED <<outsideMask, object_to_be_masked, original, mask>>

\* for blacklisted_string in mask.get("blacklisted_strings", []): one rule,
\* up to the first exception
MaskStringRule ==
    /\ mpc = "strings"
    /\ LET m == ApplyRule(object_to_be_masked, mask.blacklisted_strings[ruleNo],
                          mask.mask_by, "string")
       IN  /\ object_to_be_masked' = m.events
           /\ IF m.exc # "none"
                THEN mpc' = "except" /\ mexc' = m.exc /\ UNCHANGED ruleNo
                ELSE /\ mpc' = AfterRule("strings", ruleNo).mpc
                     /\ ruleNo' = AfterRule("strings", ruleNo).ruleNo
                     /\ UNCHANGED mexc
    /\ UNCHANGED <<outsideMask, original, mask>>

\* for blacklisted_object in mask.get("blacklisted_objects", []): one rule,
\* up to the first exception
MaskObjectRule ==
    /\ mpc = "objects"
    /\ LET m == ApplyRule(object_to_be_masked, mask.blacklisted_objects[ruleNo],
                          mask.mask_by, "object")
       IN  /\ object_to_be_masked' = m.events
           /\ IF m.exc # "none"
                THEN mpc' = "except" /\ mexc' = m.exc /\ UNCHANGED ruleNo
                ELSE /\ mpc' = AfterRule("objects", ruleNo).mpc
                     /\ ruleNo' = AfterRule("objects", ruleNo).ruleNo
                     /\ UNCHANGED mexc
    /\ UNCHANGED <<outsideMask, original, mask>>

\* except Exception as e: log.exception(...), and the function ends
MaskExcept ==
    /\ mpc = "except"
    /\ mpc' = IF MaskCatches(mexc) THEN "returned" ELSE "raised"
    /\ UNCHANGED <<outsideMask, object_to_be_masked, original, mask, ruleNo, mexc>>

NextMask ==
    \/ MaskLoad
    \/ MaskStringRule
    \/ MaskObjectRule
    \/ MaskExcept

SpecMask == InitMask /\ [][NextMask]_vars

----------------------------------------------------------------------------
(* One blacklisted_strings rule applied to the events it has already masked *)

\* the longest column value
MaxTextLen == 3

\* the characters of the column values, of the patterns and of mask_by
Chars == {"p", "s", "m"}

\* the blacklisted_patterns of the rule: one pattern, a pattern whose
\* second group ends like its first, two patterns that share no character
\* with "m", two patterns of which one matches "m", and one that does not
\* compile
PatternLists ==
    { <<Good>>,
      <<Pattern(<<"p">>, <<"s", "p">>)>>,
      <<Good, Pattern(<<"s">>, <<"p">>)>>,
      <<Pattern(<<"m">>, <<"s">>), Good>>,
      <<Good, Pattern(<<"m">>, <<"s">>)>>,
      <<BadPattern>> }

\* mask.get('mask_by', '******'): characters no pattern has, or characters
\* of the patterns
MaskBys == {<<"m">>, <<"m", "m">>, <<"s", "s">>}

\* one query with one or two rows of one text column
RemaskEvents ==
    {<<Entry("q1", <<Row(Str(t), Absent)>>)>> : t \in SeqsUpTo(Chars, MaxTextLen)}
      \cup {<<Entry("q1", <<Row(Str(t), Absent), Row(Str(<<"p", "s">>), Absent)>>)>> :
              t \in SeqsUpTo(Chars, 1)}

InitRemask ==
    /\ cls = "nova"
    /\ RETRY = FALSE
    /\ returner_retry_max = 0
    /\ behaviour = AnyBehaviour
    /\ server_uri = <<>>
    /\ CollectorNew
    /\ EquivOff
    /\ ReturnerOff
    /\ original \in RemaskEvents
    /\ object_to_be_masked = original
    /\ \E pats \in PatternLists, by \in MaskBys :
         mask = [MaskFile(<<StringRule("*", "c", pats)>>, <<>>) EXCEPT !.mask_by = by]
    /\ mpc = "strings"
    /\ ruleNo = 1
    /\ mexc = "none"
    /\ RemaskOff
    /\ HelpersOff
    /\ JobsOff

\* the body of `for blacklisted_string in mask.get("blacklisted_strings", [])`
\* run for the rule, on the events as the run before left them
MaskAgain ==
    /\ mpc = "strings"
    /\ calls < 2
    /\ LET m == ApplyRule(object_to_be_masked, mask.blacklisted_strings[ruleNo],
                          mask.mask_by, "string")
       IN  /\ object_to_be_masked' = m.events
           /\ mexc' = m.exc
           /\ once' = IF calls = 0 THEN m.events ELSE once
    /\ calls' = calls + 1
    /\ UNCHANGED <<confVars, collectorVars, equivVars, returnerVars, helperVars, jobVars,
                   original, mask, mpc, ruleNo>>

SpecRemask == InitRemask /\ [][MaskAgain]_vars

----------------------------------------------------------------------------
(* The helper functions: _dedupList, _dict_update, and the host name and
   address the returners and the log handler put into every event *)

\* the longest list handed to _dedupList
MaxListLen == 5
\* the list elements are 1..MaxValue
MaxValue == 3

\* mutant: x is kept where it has not occurred before
KeptFirst(l, i) == l[i] \notin {l[j] : j \in 1..(i - 1)}

\* mutant: every element is kept
KeptAlways(l, i) == TRUE

\* if x not in l[i + 1:]
Kept(l, i) == l[i] \notin {l[j] : j \in (i + 1)..Len(l)}

RECURSIVE DedupFrom(_, _)
\* for i, x in enumerate(l): ... deduped.append(x), from index i on
DedupFrom(l, i) ==
    IF i > Len(l) THEN <<>>
    ELSE IF Kept(l, i) THEN <<l[i]>> \o DedupFrom(l, i + 1)
    ELSE DedupFrom(l, i + 1)

dedupList(l) == DedupFrom(l, 1)

DedupInputs == {[l |-> l] : l \in SeqsUpTo(1..MaxValue, MaxListLen)}

\* data = _dedupList(data)
DedupList ==
    /\ fn = "_dedupList"
    /\ out = NotCalled
    /\ out' = [ret |-> dedupList(args.l), exc |-> "none"]
    /\ UNCHANGED <<outsideHelpers, fn, args, argsAfter>>

\* _dict_update ---------------------------------------------------------

\* a number, and a mapping: n[k] is Absent for a key the mapping has not
Number(n) == [t |-> "int", s |-> <<ToString(n)>>, o |-> <<>>]
Map(n) == [t |-> "dict", s |-> <<>>, o |-> <<n>>]

\* isinstance(x, collections.Mapping)
IsMapping(v) == v.t = "dict"

\* mutant: only upd is tested
NotMappingUpd(dest, upd) == ~IsMapping(upd)

\* (not isinstance(dest, collections.Mapping)) or (not isinstance(upd, ...))
NotMappings(dest, upd) == ~IsMapping(dest) \/ ~IsMapping(upd)

\* mutant: always the classic dict.update
RecursiveNever(recursive_update, common) == FALSE

\* if not set(list(dest.keys())) & set(updkeys): recursive_update = False
Recursive(recursive_update, common) == recursive_update /\ common # {}

RECURSIVE dict_update(_, _, _, _)
\* the mapping dest is after the loop over the keys of upd
dict_update(dest, upd, recursive_update, merge_lists) ==
    LET d == dest.o[1]
        u == upd.o[1]
        common == {k \in DOMAIN u : d[k] # Absent /\ u[k] # Absent}
        rec == Recursive(recursive_update, common)
    IN  Map([k \in DOMAIN u |->
              IF u[k] = Absent THEN d[k]
              ELSE IF rec /\ IsMapping(d[k]) /\ IsMapping(u[k])
                THEN dict_update(d[k], u[k], TRUE, merge_lists)
              ELSE IF rec /\ d[k].t = "list" /\ u[k].t = "list" /\ merge_lists
                THEN List(d[k].o \o u[k].o)
              ELSE u[k]])

\* the values of the mappings: numbers and lists of numbers
Leaves == {Number(1), Number(2), List(<<Number(1), Number(2)>>), List(<<Number(3)>>)}

\* the mappings inside a mapping
InnerMaps ==
    {Map([a |-> x, b |-> y]) : x, y \in {Absent, Number(2), List(<<Number(3)>>)}}

\* dest and upd: under a anything, under b nothing, a number or a mapping
Maps ==
    {Map([a |-> x, b |-> y]) :
        x \in {Absent} \cup Leaves \cup InnerMaps,
        y \in {Absent, Number(1), Map([a |-> Number(2), b |-> Absent])}}

NonMappings == {Number(1), List(<<Number(3)>>)}

DictUpdateInputs ==
    {[dest |-> d, upd |-> u, recursive_update |-> r, merge_lists |-> ml] :
        d \in Maps, u \in Maps, r \in BOOLEAN, ml \in BOOLEAN}
      \cup {[dest |-> d, upd |-> u, recursive_update |-> TRUE, merge_lists |-> ml] :
               d \in NonMappings \cup InnerMaps, u \in NonMappings \cup InnerMaps,
               ml \in BOOLEAN}

\* mutant: the function works on a copy of dest
DestCopied(dest, r) == dest

\* dest[key] = ...; return dest: the caller's dest is the mapping returned
DestAfter(dest, r) == r

\* _dict_update(dest, upd, recursive_update, merge_lists): dest is changed
\* in place and returned
DictUpdate ==
    /\ fn = "_dict_update"
    /\ out = NotCalled
    /\ IF NotMappings(args.dest, args.upd)
         THEN out' = [ret |-> <<>>, exc |-> "TypeError"] /\ UNCHANGED argsAfter
         ELSE IF ~IsMapping(args.dest) \/ ~IsMapping(args.upd)
           \* upd.keys(), dest.keys() of something that has no keys
           THEN out' = [ret |-> <<>>, exc |-> "AttributeError"] /\ UNCHANGED argsAfter
           ELSE LET r == dict_update(args.dest, args.upd, args.recursive_update,
                                     args.merge_lists)
                IN  /\ out' = [ret |-> r, exc |-> "none"]
                    /\ argsAfter' = [args EXCEPT !.dest = DestAfter(args.dest, r)]
    /\ UNCHANGED <<outsideHelpers, fn, args>>

\* dest_host and dest_ip ---------------------------------------------------

\* the longest __grains__['ipv4']
MaxAddrs == 2

\* a host name or an address is the list of its parts between the dots;
\* the empty string is <<>>
Localhost == <<"localhost">>
bad_fqdns == {Localhost, <<"localhost", "localdomain">>, <<"localhost6", "localdomain6">>}

Loopback == <<"127", "0", "0", "1">>
Addrs == {<<>>, Loopback, <<"10", "0", "0", "5">>, <<"192", "168", "1", "9">>}

\* fqdn_ip4.startswith('127.')
StartsWith127(a) == Len(a) >= 2 /\ a[1] = "127"

\* mutant: an empty entry is taken too
PublicOrEmpty(a) == ~StartsWith127(a)

\* if ip4_addr and not ip4_addr.startswith('127.')
Public(a) == a # <<>> /\ ~StartsWith127(a)

RECURSIVE FirstPublic(_, _)
\* for ip4_addr in __grains__['ipv4']: ... fqdn_ip4 = ip4_addr; break
FirstPublic(ipv4, fqdn_ip4) ==
    IF ipv4 = <<>> THEN fqdn_ip4
    ELSE IF Public(Head(ipv4)) THEN Head(ipv4)
    ELSE FirstPublic(Tail(ipv4), fqdn_ip4)

\* the try block that picks fqdn_ip4: local_ip4, else fqdn_ip4[0], else
\* ipv4[0], else Exception('No ipv4 grains found ...')
ChosenIp4(g) ==
    IF g.local_ip4 # <<>> THEN [ip |-> g.local_ip4, exc |-> "none"]
    ELSE IF g.fqdn_ip4 # <<>> THEN [ip |-> g.fqdn_ip4[1], exc |-> "none"]
    ELSE IF g.ipv4 # <<>> THEN [ip |-> g.ipv4[1], exc |-> "none"]
    ELSE [ip |-> <<>>, exc |-> "Exception"]

\* fqdn_ip4 after `if fqdn_ip4.startswith('127.')`
Ip4(g) ==
    IF StartsWith127(ChosenIp4(g).ip) THEN FirstPublic(g.ipv4, ChosenIp4(g).ip)
    ELSE ChosenIp4(g).ip

\* mutant: a host name without a dot is taken
UnusableBadOnly(new_fqdn) == new_fqdn \in bad_fqdns

\* if '.' not in new_fqdn or new_fqdn in bad_fqdns
Unusable(new_fqdn) == Len(new_fqdn) < 2 \/ new_fqdn \in bad_fqdns

\* fqdn after `fqdn = fqdn if fqdn else minion_id` and `if fqdn in bad_fqdns`
Fqdn(g) ==
    LET fqdn == IF g.fqdn # <<>> THEN g.fqdn ELSE g.minion_id
    IN  IF fqdn \in bad_fqdns
          THEN IF Unusable(g.hostname) THEN Ip4(g) ELSE g.hostname
          ELSE fqdn

\* the grains, the minion id and socket.gethostname()
HostInputs ==
    {[fqdn |-> f, minion_id |-> m, local_ip4 |-> l, fqdn_ip4 |-> f4, ipv4 |-> v4,
      hostname |-> h] :
        f \in {<<>>, Localhost, <<"localhost", "localdomain">>, <<"web1", "example", "com">>},
        m \in {<<"minion">>, Localhost},
        l \in {<<>>, Loopback, <<"10", "0", "0", "5">>},
        f4 \in SeqsUpTo(Addrs, 1),
        v4 \in SeqsUpTo(Addrs, MaxAddrs),
        h \in {Localhost, <<"web1">>, <<"web1", "example", "com">>,
                <<"localhost6", "localdomain6">>}}

\* the lines of returner() and of emit() between the collector set-up and
\* the first event: they give dest_host and dest_ip or raise
DestHost ==
    /\ fn = "dest_host"
    /\ out = NotCalled
    /\ out' = IF ChosenIp4(args).exc # "none"
                THEN [ret |-> <<>>, exc |-> ChosenIp4(args).exc]
                ELSE [ret |-> [dest_host |-> Fqdn(args), dest_ip |-> Ip4(args)],
                      exc |-> "none"]
    /\ UNCHANGED <<outsideHelpers, fn, args, argsAfter>>

\* the events of the returners ------------------------------------------

\* the kinds of events: the three of the nova returner, and the one of the
\* pulsar returner
EventKinds == {"Failure", "Success", "Compliance", "file-change"}

\* the keys of an event that the model follows
EventKeys == {"description", "file_name", "dest_host", "custom_site", "custom_team"}

\* custom_field_name = 'custom_' + custom_field
CustomKey(custom_field) == IF custom_field = "site" THEN "custom_site" ELSE "custom_team"

RECURSIVE CommaJoin(_)
\* ','.join(custom_field_value), of strings
CommaJoin(l) ==
    IF l = <<>> THEN <<>>
    ELSE IF Len(l) = 1 THEN Head(l).s
    ELSE Head(l).s \o <<",">> \o CommaJoin(Tail(l))

\* ','.join raises TypeError on an item that is no string
JoinRaises(v) == v.t = "list" /\ \E i \in 1..Len(v.o) : v.o[i].t # "str"

\* what the loop over custom_fields puts under the key: the string, the
\* joined list, or nothing (Absent)
CustomValue(v) ==
    IF v.t = "str" THEN v
    ELSE IF v.t = "list" THEN Str(CommaJoin(v.o))
    ELSE Absent

\* the event kinds with `remove_keys = [k for k in event if event[k] == ""]`
Strips(kind) == kind \in {"Success", "file-change"}

\* the event before the empty values are removed
EventOf(a) ==
    [k \in EventKeys |->
        IF k = "dest_host" THEN Str(<<"h">>)
        ELSE IF k = "description"
          THEN IF a.kind \in {"Failure", "Success"} THEN Str(a.text) ELSE Absent
        ELSE IF k = "file_name"
          THEN IF a.kind = "file-change" THEN Str(a.text) ELSE Absent
        ELSE IF \E i \in 1..Len(a.custom_fields) : CustomKey(a.custom_fields[i]) = k
          THEN CustomValue(a.config[CHOOSE f \in DOMAIN a.config : CustomKey(f) = k])
        ELSE Absent]

\* for k in remove_keys: del event[k]
Stripped(event) == [k \in DOMAIN event |-> IF event[k] = Str(<<>>) THEN Absent ELSE event[k]]

\* __salt__['config.get'](custom_field, ''): nothing configured (''), a
\* string, lists of strings, a list of numbers, a number, a mapping
LookupValues ==
    { Str(<<>>), Str(<<"x">>), List(<<Str(<<"x">>), Str(<<"y">>)>>), List(<<>>),
      List(<<Number(1), Number(2)>>), Number(7), Map([a |-> Number(1), b |-> Absent]) }

EventInputs ==
    {[kind |-> k, text |-> t, custom_fields |-> cf, config |-> c] :
        k \in EventKinds, t \in {<<>>, <<"d">>},
        cf \in {<<>>, <<"site">>, <<"site", "team">>},
        c \in [{"site", "team"} -> LookupValues]}

\* the body of the loops over the results up to hec.batchEvent(payload):
\* the event that is handed over, or the exception that ends the returner
BuildEvent ==
    /\ fn = "event"
    /\ out = NotCalled
    /\ out' = IF \E i \in 1..Len(args.custom_fields) :
                    JoinRaises(args.config[args.custom_fields[i]])
                THEN [ret |-> <<>>, exc |-> "TypeError"]
                ELSE [ret |-> IF Strips(args.kind) THEN Stripped(EventOf(args))
                                                  ELSE EventOf(args),
                      exc |-> "none"]
    /\ UNCHANGED <<outsideHelpers, fn, args, argsAfter>>

\* filter_config -----------------------------------------------------------

\* a key of the configuration is the list of the words it is written with:
\* 'api_token' is <<"api", "token">>
ConfKeys == {<<"user">>, <<"password">>, <<"api", "token">>, <<"Token">>}

\* a dict whose keys are such lists; n[key] is Absent for a key it has not
Dict(n) == [t |-> "dict", s |-> <<>>, o |-> <<[items |-> n]>>]

\* patterns_to_filter = ["password", "token"]
patterns_to_filter == {<<"password">>, <<"token">>}

\* patt in key
In(patt, key) ==
    \E i \in 1..Len(key) :
        i + Len(patt) - 1 <= Len(key) /\ SubSeq(key, i, i + Len(patt) - 1) = patt

\* mutant: only the first pattern is looked for
PasswordInKey(key) == In(<<"password">>, key)

\* any(patt in key for patt in patterns_to_filter)
AnyPatternInKey(key) == \E patt \in patterns_to_filter : In(patt, key)

RECURSIVE remove_sensitive_info(_)
\* a new dict without the keys that hold a pattern, a new list, or the
\* object itself
remove_sensitive_info(obj) ==
    IF obj.t = "dict"
      THEN Dict([key \in DOMAIN obj.o[1].items |->
                 IF obj.o[1].items[key] = Absent \/ AnyPatternInKey(key) THEN Absent
                 ELSE remove_sensitive_info(obj.o[1].items[key])])
    ELSE IF obj.t = "list"
      THEN List([i \in 1..Len(obj.o) |-> remove_sensitive_info(obj.o[i])])
    ELSE obj

\* the dicts without containers inside
FlatConfs == {Dict(n) : n \in [ConfKeys -> {Absent, Str(<<"v">>)}]}

\* what the key 'user' holds: a dict, a list with a dict, a list with a list
\* with a dict, a dict with two dicts
NestedConfs ==
    FlatConfs
      \cup {List(<<d, Str(<<"v">>)>>) : d \in FlatConfs}
      \cup {List(<<List(<<d>>)>>) : d \in FlatConfs}
      \cup {Dict([k \in ConfKeys |-> IF k \in {<<"user">>, <<"password">>} THEN d ELSE Absent]) :
               d \in FlatConfs}

\* opts_to_log
ConfInputs ==
    {[opts |-> Dict([k \in ConfKeys |-> IF k = <<"user">> THEN v ELSE n[k]])] :
        v \in NestedConfs, n \in [ConfKeys -> {Absent, Str(<<"v">>)}]}

\* filtered_conf = filter_config(opts_to_log)
FilterConfig ==
    /\ fn = "filter_config"
    /\ out = NotCalled
    /\ out' = [ret |-> remove_sensitive_info(args.opts), exc |-> "none"]
    /\ UNCHANGED <<outsideHelpers, fn, args, argsAfter>>

\* queries -------------------------------------------------------------------

\* an entry of the list queries() returns, with the osfinger it reports
ResultEntry(name, osfinger) == [name |-> name, osfinger |-> osfinger]

\* mutant: the versions are reported whatever the flag says
VersionsAlways(report_version_with_day) == TRUE

\* if report_version_with_day: ret.append(trubble_versions())
VersionsAppended(report_version_with_day) == report_version_with_day

\* the baseline data of a host without osquery
Baseline(a) ==
    <<ResultEntry("fallback_osfinger",
                  IF a.osfinger # "" THEN a.osfinger ELSE a.osfullname)>>
      \o (IF a.list_pkgs THEN <<ResultEntry("fallback_pkgs", "")>> ELSE <<>>)
      \o <<ResultEntry("fallback_uptime", "")>>
      \o (IF VersionsAppended(a.report_version_with_day)
            THEN <<ResultEntry("trubble_versions", "")>> ELSE <<>>)

\* what queries() gives back: None or a list, and whether osquery was run
Returned(kind, entries, ran) == [returned |-> kind, entries |-> entries, ran |-> ran]

\* the query file is read ("ok"), is no file on disk and is passed over
\* ("skipped"), cannot be cached ("no_file"), or holds no mapping
\* ("not_dict"); the grains; the group asked for and whether the file has it
QueriesInputs ==
    {[load |-> l, installed |-> i, query_group |-> g, defined |-> d,
      report_version_with_day |-> r, list_pkgs |-> p, osfinger |-> o,
      osfullname |-> "Ubuntu"] :
        l \in {"ok", "skipped", "no_file", "not_dict"}, i \in BOOLEAN,
        g \in {"day", "hour"}, d \in BOOLEAN, r \in BOOLEAN, p \in BOOLEAN,
        o \in {"Ubuntu-16.04", ""}}

\* queries(query_group, query_file, report_version_with_day=...)
Queries ==
    /\ fn = "queries"
    /\ out = NotCalled
    /\ out' =
         IF args.load = "no_file" THEN [ret |-> Returned("None", <<>>, FALSE), exc |-> "none"]
         ELSE IF args.load = "not_dict"
           THEN [ret |-> Returned("nothing", <<>>, FALSE), exc |-> "CommandExecutionError"]
         ELSE IF ~args.installed
           THEN IF args.query_group = "day"
                  THEN [ret |-> Returned("list", Baseline(args), FALSE), exc |-> "none"]
                  ELSE [ret |-> Returned("None", <<>>, FALSE), exc |-> "none"]
         \* query_data.get(query_group, {}) is empty
         ELSE IF args.load = "skipped" \/ ~args.defined
           THEN [ret |-> Returned("None", <<>>, FALSE), exc |-> "none"]
         ELSE [ret |-> Returned("list", <<ResultEntry("query", "")>>, TRUE), exc |-> "none"]
    /\ UNCHANGED <<outsideHelpers, fn, args, argsAfter>>

InitHelpers ==
    /\ cls = "nova"
    /\ RETRY = FALSE
    /\ returner_retry_max = 0
    /\ behaviour = AnyBehaviour
    /\ server_uri = <<>>
    /\ CollectorNew
    /\ EquivOff
    /\ ReturnerOff
    /\ MaskOff
    /\ RemaskOff
    /\ JobsOff
    /\ \/ fn = "_dedupList" /\ args \in DedupInputs
       \/ fn = "_dict_update" /\ args \in DictUpdateInputs
       \/ fn = "dest_host" /\ args \in HostInputs
       \/ fn = "event" /\ args \in EventInputs
       \/ fn = "filter_config" /\ args \in ConfInputs
       \/ fn = "queries" /\ args \in QueriesInputs
    /\ argsAfter = args
    /\ out = NotCalled

NextHelpers ==
    \/ DedupList
    \/ DictUpdate
    \/ DestHost
    \/ BuildEvent
    \/ FilterConfig
    \/ Queries

SpecHelpers == InitHelpers /\ [][NextHelpers]_vars

----------------------------------------------------------------------------
(* returner(ret) called again and again in one process: the module-level
   RETRY and the collector each call constructs *)

\* number of returner calls in a row
MaxJobs == 2

\* number of events one returner call hands to batchEvent
MaxJobEvents == 2

\* opts['indexer'] of the configuration: the same for every call
JobServers == <<"A", "B">>

\* mutant: the flag stays on once a call has set it
AssignedSticky(old, new) == old \/ new

\* global RETRY; RETRY = ret['retry']
Assigned(old, new) == new

RECURSIVE TriedFrom(_, _, _)
\* the endpoint lists one flushBatch can leave behind when it tries uris[i]
\* and the endpoints after it: an accepted request ends the call, a failed
\* endpoint keeps or loses its flag as its last failure says
TriedFrom(c, uris, i) ==
    IF i > Len(uris) THEN {uris}
    ELSE {[uris EXCEPT ![i].healthy = NewHealth(c, "ok", @)]}
         \cup UNION {TriedFrom(c, [uris EXCEPT ![i].healthy = NewHealth(c, o, @)], i + 1) :
                        o \in FailKinds}

InitJobs ==
    /\ cls \in {"nova", "pulsar"}
    /\ RETRY = FALSE
    /\ returner_retry_max \in 0..MaxRetryMax
    /\ behaviour = AnyBehaviour
    /\ server_uri = <<>>
    /\ CollectorNew
    /\ EquivOff
    /\ ReturnerOff
    /\ MaskOff
    /\ RemaskOff
    /\ HelpersOff
    /\ JobsOff

\* a call of returner(ret) up to hec = http_event_collector(...): the
\* collector of the call is a new object
JobStart ==
    /\ job.at = "returned"
    /\ job.no < MaxJobs
    /\ \E has \in BOOLEAN, n \in 0..MaxJobEvents :
         \E retry \in (IF has THEN BOOLEAN ELSE {FALSE}) :
            job' = [no |-> job.no + 1, has |-> has, retry |-> retry, left |-> n,
                    at |-> "constructed"]
    /\ batchEvents' = <<>>
    /\ currentByteLength' = 0
    /\ server_uri' = InitServerUri(JobServers)
    /\ nextId' = 1
    /\ UNCHANGED <<RETRY, uses, outsideJobs>>

\* global RETRY; RETRY = ret['retry']: without the key the lookup raises,
\* the except clause logs and the call returns
JobAssign ==
    /\ job.at = "constructed"
    /\ IF job.has
         THEN /\ RETRY' = Assigned(RETRY, job.retry)
              /\ job' = [job EXCEPT !.at = "batching"]
         ELSE /\ job' = [job EXCEPT !.at = "returned"]
              /\ UNCHANGED RETRY
    /\ UNCHANGED <<batchEvents, currentByteLength, server_uri, nextId, uses, outsideJobs>>

\* flushBatch of a non-empty batch, from the filter to the return: it reads
\* the module-level RETRY, posts, and leaves the endpoints as the requests
\* went
JobFlushes ==
    /\ \E uris \in TriedFrom(cls, Eligible(server_uri), 1) : server_uri' = uris
    /\ uses' = Append(uses, [job |-> job.no, own |-> job.retry, RETRY |-> RETRY,
                             max_retries |-> MaxRetriesFor(cls, RETRY, returner_retry_max)])

\* hec.batchEvent(payload) for the next event of the call
JobBatchEvent(len) ==
    /\ job.at = "batching"
    /\ job.left > 0
    /\ job' = [job EXCEPT !.left = @ - 1]
    /\ nextId' = nextId + 1
    /\ LET e == [id |-> nextId, len |-> len, slen |-> SerializedLen(cls, len)]
       IN  IF Overflows(currentByteLength, len, maxByteLength)
             THEN IF batchEvents # <<>>
                    THEN /\ JobFlushes
                         /\ batchEvents' = <<e>>
                         /\ currentByteLength' = 0
                    ELSE /\ batchEvents' = Append(batchEvents, e)
                         /\ UNCHANGED <<currentByteLength, server_uri, uses>>
             ELSE /\ currentByteLength' = currentByteLength + len
                  /\ batchEvents' = Append(batchEvents, e)
                  /\ UNCHANGED <<server_uri, uses>>
    /\ UNCHANGED <<RETRY, outsideJobs>>

\* hec.flushBatch() after the last event, and the return of the call
JobFinalFlush ==
    /\ job.at = "batching"
    /\ job.left = 0
    /\ job' = [job EXCEPT !.at = "returned"]
    /\ IF batchEvents # <<>>
         THEN /\ JobFlushes
              /\ batchEvents' = <<>>
              /\ currentByteLength' = 0
         ELSE UNCHANGED <<batchEvents, currentByteLength, server_uri, uses>>
    /\ UNCHANGED <<RETRY, nextId, outsideJobs>>

NextJobs ==
    \/ JobStart
    \/ JobAssign
    \/ \E len \in EventLens : JobBatchEvent(len)
    \/ JobFinalFlush

SpecJobs == InitJobs /\ [][NextJobs]_vars

----------------------------------------------------------------------------
(* Properties of batching *)

FlushedIds == UNION {BodyIds(flushed[i].body) : i \in 1..Len(flushed)}

InFlush == pc \in {"flush", "clear"}

\* C1: when batchEvent finds currentByteLength + len > maxByteLength, the
\* pending events are flushed first and the triggering event is appended
\* afterwards: while the flush runs the event is in no request body, when
\* the flush has returned the batch is empty so that the event becomes the
\* first of the next batch, and no event handed to batchEvent is lost
\* before it has been part of a batch.
C1_OverflowFlushesFirst ==
    /\ payload # NoEvent =>
         /\ pc \in {"flush", "clear", "append"}
         /\ payload.id = nextId - 1
         /\ payload.id \notin IdSet(batchEvents)
         /\ payload.id \notin FlushedIds
         /\ \A i \in 1..Len(requests) :
              /\ requests[i].body = Ids(batchEvents)
              /\ \A j \in 1..Len(requests[i].body) : requests[i].body[j] # payload.id
    /\ pc = "append" => batchEvents = <<>> /\ payload # NoEvent
    /\ \A id \in 1..(nextId - 1) :
         id \in IdSet(batchEvents) \cup FlushedIds \cup {payload.id}
    /\ (flushed # <<>> /\ batchEvents # <<>>) =>
         LET last == flushed[Len(flushed)].body
         IN  batchEvents[1].id = last[Len(last)] + 1

\* an overflow has flushed two events and its trigger now starts the next batch
C1_Witness ==
    /\ pc = "idle"
    /\ Len(flushed) = 1
    /\ flushed[1].body = <<1, 2>>
    /\ Ids(batchEvents) = <<3>>
    /\ currentByteLength = 0

\* C2: if every event's serialized length is at most maxByteLength, the
\* events handed to delivery by one flushBatch never sum to more than
\* maxByteLength (stated on the lengths as batchEvent measures them, which
\* are never larger than the lengths of the strings that are sent).
C2_ByteBudget ==
    (InFlush /\ ~oversized) =>
        /\ SumPayloadLen(batchEvents) <= maxByteLength
        /\ SumPayloadLen(batchEvents) <= SumLen(batchEvents)

\* C3: a flushBatch of a non-empty batch ends with the pending list empty
\* and the byte counter 0, whatever the outcome of the delivery.
C3_FlushAlwaysClears ==
    [][pc = "clear" => (batchEvents' = <<>> /\ currentByteLength' = 0)]_vars

\* a flush in which requests were made and all failed has returned, and the
\* batch and the counter are cleared
C3_Witness ==
    /\ pc = "idle"
    /\ flushed # <<>>
    /\ ~flushed[Len(flushed)].success
    /\ server >= 1
    /\ ~success
    /\ batchEvents = <<>>
    /\ currentByteLength = 0

\* C4: an event is in the request bodies of at most one flushBatch call:
\* the batches of different flushes share no event, the requests of the
\* running flush carry the pending events only, and no pending event was
\* part of an earlier flush, failed or not.
C4_AtMostOnce ==
    /\ \A i, j \in 1..Len(flushed) :
         i # j => BodyIds(flushed[i].body) \cap BodyIds(flushed[j].body) = {}
    /\ IdSet(batchEvents) \cap FlushedIds = {}
    /\ \A i \in 1..Len(requests) :
         /\ requests[i].body = Ids(batchEvents)
         /\ BodyIds(requests[i].body) \cap FlushedIds = {}

\* the first flush (all endpoints still eligible, so requests were made)
\* has failed, and a later flush is sending a request
C4_Witness ==
    /\ Len(flushed) >= 1
    /\ ~flushed[1].success
    /\ pc = "clear"
    /\ requests # <<>>
    /\ success

----------------------------------------------------------------------------
(* Properties of delivery *)

Returner == cls \in {"nova", "pulsar"}

\* position of an endpoint in the endpoint list of the running flush
Pos(u) == CHOOSE i \in 1..Len(server_uri) : server_uri[i].url = u

\* C5: with the retry flag on and returner_retry_max = M, a flushBatch of a
\* returner against a single endpoint whose requests all fail makes exactly
\* M + 1 requests and sleeps retry_sleep before each of them but the first.
C5_RetryCountAndTiming ==
    (Returner /\ RETRY /\ pc = "clear" /\ Len(server_uri) = 1 /\ ~success) =>
        /\ Len(requests) = returner_retry_max + 1
        /\ \A i \in 1..Len(requests) :
             /\ ~requests[i].ok
             /\ requests[i].slept = IF i = 1 THEN 0 ELSE returner_retry_sleep

\* M = 2: three failed requests to the only endpoint, the last a timeout
C5_Witness ==
    /\ cls = "nova" /\ RETRY /\ returner_retry_max = 2
    /\ pc = "clear" /\ Len(server_uri) = 1 /\ ~success
    /\ Len(requests) = 3
    /\ requests[2].slept = returner_retry_sleep
    /\ response = "Timeout"

\* C6: with the retry flag off a returner's flushBatch makes at most one
\* request per eligible endpoint and never sleeps, whatever the configured
\* returner_retry_max is.
C6_NoRetryWhenFlagOff ==
    (Returner /\ ~RETRY) =>
        /\ Len(requests) <= Len(server_uri)
        /\ \A i \in 1..Len(requests) : requests[i].slept = 0
        /\ \A i, j \in 1..Len(requests) : i # j => requests[i].url # requests[j].url

\* flag off, two retries configured: both endpoints failed after one request each
C6_Witness ==
    /\ cls = "nova" /\ ~RETRY /\ returner_retry_max = 2
    /\ pc = "clear" /\ ~success
    /\ Len(requests) = 2
    /\ requests[1].url = "A" /\ requests[2].url = "B"

\* C7: within one flushBatch the endpoints are tried in the order of the
\* endpoint list, starting with the first eligible one and never going
\* back, and a successful request is the last request of the call.
C7_FirstAcceptWins ==
    InFlush =>
        /\ requests # <<>> => requests[1].url = server_uri[1].url
        /\ \A i \in 1..(Len(requests) - 1) :
             /\ ~requests[i].ok
             /\ Pos(requests[i + 1].url) \in {Pos(requests[i].url), Pos(requests[i].url) + 1}
        /\ (requests # <<>> /\ requests[Len(requests)].ok) => pc = "clear"
        /\ (pc = "flush" /\ requests # <<>>) =>
             Pos(requests[Len(requests)].url) \in {server, server - 1}

\* A failed once and accepted the retry: the flush is over with a retry
\* left and without any request to B
C7_Witness ==
    /\ pc = "clear" /\ success
    /\ Len(server_uri) = 2 /\ max_retries = 2
    /\ Len(requests) = 2
    /\ requests[1].url = "A" /\ ~requests[1].ok
    /\ requests[2].url = "A" /\ requests[2].ok

IsUnhealthy(u) == \E i \in 1..Len(server_uri) : server_uri[i].url = u /\ ~server_uri[i].healthy

LastRequest == requests[Len(requests)]

\* the failures after which an endpoint is to be marked unhealthy: a
\* connection error or another request exception
MarkingKinds == {"ConnectionError", "RequestException"}

\* C8: with endpoints [A, B], every request to A failing (with a failure
\* that marks an endpoint unhealthy) and B accepting, flushBatch delivers
\* through B and leaves A marked unhealthy, and no later flushBatch of the
\* collector sends a request to A.
C8_Failover ==
    (behaviour \in {FailoverBehaviour(k) : k \in MarkingKinds}
       /\ \E i \in 1..Len(server_uri) : server_uri[i].url = "B") =>
        /\ pc = "clear" =>
             /\ success
             /\ LastRequest.url = "B" /\ LastRequest.ok
             /\ flushed = <<>> => IsUnhealthy("A")
        /\ flushed # <<>> => \A i \in 1..Len(requests) : requests[i].url # "A"

\* C9: after a request that fails with a connection error or with another
\* request exception the endpoint is marked unhealthy and the next request
\* of the flush, if any, goes to another endpoint.
C9_FailureMarksAndMovesOn ==
    (InFlush /\ response \in {"ConnectionError", "RequestException"}) =>
        /\ IsUnhealthy(LastRequest.url)
        /\ pc = "flush" => server_uri[server].url # LastRequest.url

\* C10: once an endpoint has been marked unhealthy, no request is sent to
\* it any more and its health flag is never healthy again.
C10_HealthIsSticky ==
    [][/\ Len(requests') > Len(requests) => requests'[Len(requests')].url \notin marked
       /\ \A i \in 1..Len(server_uri') :
            server_uri'[i].url \in marked => ~server_uri'[i].healthy]_vars

\* the failures that leave the health flag of a returner's endpoint alone
NonMarkingKinds == {"Timeout", "HTTPError"}

\* C11: in the returners' collectors a request that fails by timeout or by
\* a non-2xx status leaves the health flags and the endpoint list as they
\* were, and an endpoint that only ever fails in these ways stays in the
\* list and gets the first request of every later flushBatch.
C11_TimeoutAndHttpErrorKeepHealth ==
    [][Returner =>
         /\ (Len(requests') > Len(requests) /\ response' \in NonMarkingKinds) =>
               server_uri' = server_uri
         /\ behaviour \in {FailoverBehaviour(k) : k \in NonMarkingKinds} =>
               /\ server_uri'[1].url = "A" /\ server_uri'[1].healthy # FALSE
               /\ requests' # <<>> => requests'[1].url = "A"]_vars

\* A timed out in an earlier flush and has just timed out again as the
\* first endpoint of the next flush
C11_Witness ==
    /\ Returner /\ behaviour = FailoverBehaviour("Timeout")
    /\ flushed # <<>> /\ pc = "flush"
    /\ Len(requests) = 1 /\ requests[1].url = "A" /\ ~requests[1].ok
    /\ response = "Timeout"
    /\ server_uri[1].url = "A" /\ server_uri[1].healthy # FALSE

\* C16: the body of every request of a flush is the pending events in
\* append order with a single separator between neighbours and nothing
\* around them, and all requests of one flush (retries and further
\* endpoints) carry the same body.
C16_RequestBody ==
    InFlush =>
        \A i \in 1..Len(requests) :
            LET d == requests[i].data
                n == Len(batchEvents)
            IN  /\ Len(d) = 2 * n - 1
                /\ \A k \in 1..n : d[2 * k - 1] = batchEvents[k].id
                /\ \A k \in 1..(n - 1) :
                      /\ d[2 * k] = Space
                      /\ batchEvents[k].id < batchEvents[k + 1].id
                /\ d = requests[1].data

\* a batch of two events posted to A twice (a retry) and then to B
C16_Witness ==
    /\ pc = "clear" /\ Len(batchEvents) = 2
    /\ Len(requests) = 3
    /\ requests[1].url = "A" /\ requests[2].url = "A" /\ requests[3].url = "B"
    /\ requests[3].data = <<batchEvents[1].id, Space, batchEvents[2].id>>

\* a value that counts as true for the caller
Truthy(v) == v = "True"

C15_EmptyFlushIsNoOp ==
    [][(pc = "idle" /\ batchEvents = <<>> /\ flushCall'.pending = 0) =>
          /\ UNCHANGED <<server_uri, currentByteLength, batchEvents, requests, flushed>>
          /\ requests' = <<>>
          /\ pc' = "idle" /\ UNCHANGED <<retries, server>>]_vars

\* flushBatch has been called with nothing pending while the list holds
\* an endpoint marked unhealthy by an earlier flush
C15_Witness ==
    /\ pc = "idle" /\ batchEvents = <<>>
    /\ flushCall = [pending |-> 0, ret |-> "None"]
    /\ \E i \in 1..Len(server_uri) : server_uri[i].healthy = FALSE
    /\ flushed # <<>>

\* what a caller and the endpoints see of a flushBatch state
Observed(st) == [reqs |-> st.reqs, uris |-> st.uris, running |-> st.running]

C14_WitnessHandler ==
    /\ flushNo = 2 /\ ~RETRY /\ ~divergent
    /\ \A c \in Classes : ~trio[c].running
    /\ Len(trio["logging"].uris) = 1 /\ trio["logging"].uris[1].url = "B"
    /\ Len(trio["logging"].reqs) = 1

\* C13: returner(ret) of the nova and of the pulsar module ends by
\* returning, never by an exception leaving it, whatever the shape of ret
\* is, whichever lookups and conversions fail and whatever the endpoint
\* answers.
C13_ReturnerNeverRaises ==
    /\ rpc # "propagated"
    /\ rpc \in {"entry", "options", "input", "grains", "normalize", "batchEvent",
                "flushBatch", "except", "returned"}
    /\ raised # "none" => rpc \in {"except", "returned"}

\* pulsar handed a list of returns: ret['jid'] has raised a TypeError and
\* the function has returned
C13_Witness ==
    /\ cls = "pulsar" /\ ret = "list" /\ faults = {}
    /\ raised = "TypeError" /\ rpc = "returned"

\* nova with a failing endpoint: the request timed out and the function
\* has returned without any exception of its own
C13_WitnessTransport ==
    /\ cls = "nova" /\ ret = "dict" /\ posted = "Timeout"
    /\ raised = "none" /\ rpc = "returned"

\* C17: mask_passwords_inplace ends by returning, never by an exception
\* leaving it, whatever the events, the mask files and the rules are.
C17_MaskNeverRaises ==
    /\ mpc # "raised"
    /\ mexc # "none" => mpc \in {"except", "returned"}

\* an object rule has met a number in its column: the TypeError has been
\* taken by the handler and the function has returned
C17_Witness ==
    /\ mpc = "returned" /\ mexc = "TypeError"
    /\ mask.blacklisted_objects # <<>>

RECURSIVE Isolated(_, _, _, _)
\* the rules applied one after the other, an exception ending the rule
\* that raised it and nothing else
Isolated(events, rules, by, kind) ==
    IF rules = <<>> THEN events
    ELSE Isolated(ApplyRule(events, Head(rules), by, kind).events, Tail(rules), by, kind)

\* C18: an error raised while one rule is applied skips that rule only;
\* the later rules of blacklisted_strings and blacklisted_objects are
\* applied all the same (stated for events whose entries all carry data).
C18_ErrorSkipsOnlyThatRule ==
    (mpc = "returned" /\ mask.load = "ok"
       /\ \A i \in 1..Len(original) : original[i].hasData) =>
        object_to_be_masked =
            Isolated(Isolated(original, mask.blacklisted_strings, mask.mask_by, "string"),
                     mask.blacklisted_objects, mask.mask_by, "object")

\* the index of the first row a string rule breaks at (the length plus one
\* if there is none)
FirstBad(rows, col) ==
    IF \E k \in 1..Len(rows) : BadRow(rows[k], col)
      THEN CHOOSE k \in 1..Len(rows) :
             BadRow(rows[k], col) /\ \A j \in 1..(k - 1) : ~BadRow(rows[j], col)
      ELSE Len(rows) + 1

\* C19: a rule with query_name '*' reaches the rows of every query result
\* of the events, entries of failed queries (without data) being among
\* them: in every entry with data, every row before the first malformed
\* row of its list has the column masked.
C19_StarRuleReachesEveryEntry ==
    (mpc = "returned" /\ mask = MaskFile(<<StringRule("*", "c", <<Good>>)>>, <<>>)) =>
        \A i \in 1..Len(original) :
            original[i].hasData =>
                \A k \in 1..(FirstBad(original[i].data, "c") - 1) :
                    object_to_be_masked[i].data[k].c =
                        Str(ReSub(Good, MaskBy, original[i].data[k].c.s))

\* C20: one string rule, no exception: in every row list the rule
\* addresses, the rows before the first row whose column is absent or not
\* a string have the column masked, that row and the rows after it are as
\* they were, and so is every row of the entries the rule does not
\* address; a break in one row list does not end the other row lists.
C20_EarlyBreak ==
    (mpc = "returned" /\ mexc = "none" /\ mask.load = "ok"
       /\ Len(mask.blacklisted_strings) = 1 /\ mask.blacklisted_objects = <<>>) =>
        LET rule == mask.blacklisted_strings[1]
        IN  /\ Len(object_to_be_masked) = Len(original)
            /\ \A i \in 1..Len(original) :
                 LET before == original[i].data
                     after == object_to_be_masked[i].data
                     addressed == rule.query_name \in {"*", original[i].name}
                 IN  /\ Len(after) = Len(before)
                     /\ \A k \in 1..Len(before) :
                          IF addressed /\ k < FirstBad(before, rule.column)
                            THEN after[k] =
                                   [before[k] EXCEPT ![rule.column] =
                                      Str(SubAll(rule.blacklisted_patterns, mask.mask_by,
                                                 before[k][rule.column].s).s)]
                            ELSE after[k] = before[k]

\* rule for every query: the first row of q1 is masked, the second has a
\* number in the column, the third still shows its secret, and the row of
\* q2 is masked
C20_Witness ==
    /\ mpc = "returned" /\ mexc = "none"
    /\ mask = MaskFile(<<StringRule("*", "c", <<Good>>)>>, <<>>)
    /\ original[1] = Entry("q1", <<Row(Str(<<"p", "s">>), Absent), Row(Num, Absent),
                                   Row(Str(<<"p", "s">>), Absent)>>)
    /\ object_to_be_masked[1].data[1].c = Str(<<"p", "m">>)
    /\ object_to_be_masked[1].data[3].c = Str(<<"p", "s">>)
    /\ object_to_be_masked[2].name = "q2"
    /\ object_to_be_masked[2].data[1].c = Str(<<"p", "m">>)

RECURSIVE MaskedAs(_, _, _)
\* `after` is `before` with the listed attributes of the blacklisted
\* objects hidden and everything else, the nesting included, as it was
MaskedAs(before, after, rule) ==
    IF before.t = "list"
      THEN /\ after.t = "list" /\ Len(after.o) = Len(before.o)
           /\ \A i \in 1..Len(before.o) : MaskedAs(before.o[i], after.o[i], rule)
    ELSE IF before.t = "obj"
      THEN LET nb == before.o[1]
               na == after.o[1]
               hit == Has(nb, rule.attribute_to_check)
                        /\ nb[rule.attribute_to_check] \in rule.blacklisted_patterns
           IN  /\ after.t = "obj" /\ DOMAIN na = DOMAIN nb
               /\ \A a \in DOMAIN nb :
                    na[a] = IF hit /\ a \in rule.attributes_to_mask /\ nb[a] # "absent"
                              THEN "masked" ELSE nb[a]
    ELSE after = before

\* the index of the first row an object rule breaks at
FirstBadObject(rows, col) ==
    IF \E k \in 1..Len(rows) : BadObjectRow(rows[k], col)
      THEN CHOOSE k \in 1..Len(rows) :
             BadObjectRow(rows[k], col) /\ \A j \in 1..(k - 1) : ~BadObjectRow(rows[j], col)
      ELSE Len(rows) + 1

\* C21: one object rule, no exception: in the rows the rule reaches, the
\* column value is walked through its nested arrays, every object whose
\* attribute_to_check value is blacklisted has its attributes_to_mask that
\* are present set to mask_by, and all other objects, attributes, columns
\* and rows are as they were.
C21_ObjectMasking ==
    (mpc = "returned" /\ mexc = "none" /\ mask.load = "ok"
       /\ mask.blacklisted_strings = <<>> /\ Len(mask.blacklisted_objects) = 1) =>
        LET rule == mask.blacklisted_objects[1]
        IN  /\ Len(object_to_be_masked) = Len(original)
            /\ \A i \in 1..Len(original) :
                 LET before == original[i].data
                     after == object_to_be_masked[i].data
                     addressed == rule.query_name \in {"*", original[i].name}
                 IN  /\ Len(after) = Len(before)
                     /\ \A k \in 1..Len(before) :
                          IF addressed /\ k < FirstBadObject(before, rule.column)
                            THEN /\ MaskedAs(before[k][rule.column], after[k][rule.column], rule)
                                 /\ after[k].c = before[k].c
                            ELSE after[k] = before[k]

\* an array holding a blacklisted object and an inner array with a
\* blacklisted and another object: both blacklisted objects have lost
\* secret and token, the attribute note and the other object are untouched
C21_Witness ==
    /\ mpc = "returned" /\ mexc = "none"
    /\ mask = MaskFile(<<>>, <<ObjectRule("*", "j")>>)
    /\ original =
         <<Entry("q1", <<Row(Absent,
             List(<<Obj(HitNode),
                    List(<<Obj(HitNode), Obj([HitNode EXCEPT !.disc = "miss"])>>)>>))>>)>>
    /\ object_to_be_masked =
         <<Entry("q1", <<Row(Absent,
             List(<<Obj([HitNode EXCEPT !.secret = "masked", !.token = "masked"]),
                    List(<<Obj([HitNode EXCEPT !.secret = "masked", !.token = "masked"]),
                           Obj([HitNode EXCEPT !.disc = "miss"])>>)>>))>>)>>

\* C22: when the mask configuration cannot be loaded, no rule is applied:
\* mask_passwords_inplace returns with the events as they were handed in,
\* and queries() returns them.
C22_LoadFailureLeavesEvents ==
    mask.load # "ok" =>
        /\ object_to_be_masked = original
        /\ mpc \in {"load", "except", "returned"}

\* a second mask file holds no mapping: the rules of the first are not
\* applied and the secret of q1 is still in the events that are returned
C22_Witness ==
    /\ mpc = "returned" /\ mexc = "CommandExecutionError"
    /\ mask.load = "not_dict" /\ mask.blacklisted_strings # <<>>
    /\ original[1] = Entry("q1", <<Row(Str(<<"p", "s">>), Absent)>>)
    /\ object_to_be_masked = original

\* the characters of a text
CharsOf(s) == {s[i] : i \in 1..Len(s)}

\* mask_by has no character that a pattern of the rule has
MaskByApart ==
    \A i \in 1..Len(mask.blacklisted_strings[1].blacklisted_patterns) :
        LET pat == mask.blacklisted_strings[1].blacklisted_patterns[i]
        IN  CharsOf(mask.mask_by) \cap CharsOf(pat.p \o pat.q) = {}

Elems(l) == {l[i] : i \in 1..Len(l)}
FirstIndex(l, x) == CHOOSE i \in 1..Len(l) : l[i] = x /\ \A j \in 1..(i - 1) : l[j] # x
LastIndex(l, x) == CHOOSE i \in 1..Len(l) : l[i] = x /\ \A j \in (i + 1)..Len(l) : l[j] # x

\* r holds the distinct values of l, each once
DistinctValuesOf(l, r) == Elems(r) = Elems(l) /\ Len(r) = Cardinality(Elems(l))

\* C24 as stated: _dedupList returns the distinct values of the list in the
\* order of their first occurrences; [1,2,1,3,2] gives [1,2,3].
C24_DedupKeepsFirst ==
    (fn = "_dedupList" /\ out # NotCalled) =>
        /\ out.exc = "none"
        /\ DistinctValuesOf(args.l, out.ret)
        /\ \A p, q \in 1..Len(out.ret) :
             p < q => FirstIndex(args.l, out.ret[p]) < FirstIndex(args.l, out.ret[q])
        /\ args.l = <<1, 2, 1, 3, 2>> => out.ret = <<1, 2, 3>>

\* C24: _dedupList returns the distinct values of the list in the order of
\* their last occurrences; [1,2,1,3,2] gives [1,3,2].
C24_DedupKeepsLast ==
    (fn = "_dedupList" /\ out # NotCalled) =>
        /\ out.exc = "none"
        /\ DistinctValuesOf(args.l, out.ret)
        /\ \A p, q \in 1..Len(out.ret) :
             p < q => LastIndex(args.l, out.ret[p]) < LastIndex(args.l, out.ret[q])
        /\ args.l = <<1, 2, 1, 3, 2>> => out.ret = <<1, 3, 2>>

C24_Witness ==
    /\ fn = "_dedupList"
    /\ args.l = <<1, 2, 1, 3, 2>>
    /\ out = [ret |-> <<1, 3, 2>>, exc |-> "none"]

\* the keys of a mapping
KeysOf(v) == {k \in DOMAIN v.o[1] : v.o[1][k] # Absent}

RECURSIVE Merged(_, _, _)
\* the merge of two mappings: per key of upd, mappings are merged by the same
\* rule, lists are joined when merge_lists is set, anything else is upd's
\* value; the keys only dest has keep their value
Merged(dest, upd, merge_lists) ==
    LET d == dest.o[1]
        u == upd.o[1]
    IN  Map([k \in DOMAIN u |->
              IF u[k] = Absent THEN d[k]
              ELSE IF d[k].t = "dict" /\ u[k].t = "dict" THEN Merged(d[k], u[k], merge_lists)
              ELSE IF d[k].t = "list" /\ u[k].t = "list" /\ merge_lists
                THEN List(d[k].o \o u[k].o)
              ELSE u[k]])

\* C25: _dict_update(dest, upd, merge_lists) returns the mapping with the
\* keys of both, in which a key of upd holds the recursive merge when both
\* sides hold a mapping, dest's list followed by upd's list when both hold a
\* list and merge_lists is set, and upd's value otherwise, and in which the
\* keys only dest has keep their value; {a:1} with {a:2} gives {a:2}, and
\* {a:[1,2]} with {a:[3]} and merge_lists gives {a:[1,2,3]}.
C25_DictUpdateMerges ==
    (fn = "_dict_update" /\ out # NotCalled
       /\ IsMapping(args.dest) /\ IsMapping(args.upd) /\ args.recursive_update) =>
        /\ out.exc = "none"
        /\ KeysOf(out.ret) = KeysOf(args.dest) \cup KeysOf(args.upd)
        /\ out.ret = Merged(args.dest, args.upd, args.merge_lists)
        /\ (/\ args.dest = Map([a |-> Number(1), b |-> Absent])
            /\ args.upd = Map([a |-> Number(2), b |-> Absent])
            /\ ~args.merge_lists)
             => out.ret = Map([a |-> Number(2), b |-> Absent])
        /\ (/\ args.dest = Map([a |-> List(<<Number(1), Number(2)>>), b |-> Absent])
            /\ args.upd = Map([a |-> List(<<Number(3)>>), b |-> Absent])
            /\ args.merge_lists)
             => out.ret = Map([a |-> List(<<Number(1), Number(2), Number(3)>>), b |-> Absent])

\* {a: {a: 2, b: [3]}, b: 1} with {a: {b: [3]}, b: {a: 2}} and merge_lists:
\* the inner mappings are merged, their lists joined, and b is replaced
C25_Witness ==
    /\ fn = "_dict_update"
    /\ args = [dest |-> Map([a |-> Map([a |-> Number(2), b |-> List(<<Number(3)>>)]),
                             b |-> Number(1)]),
               upd |-> Map([a |-> Map([a |-> Absent, b |-> List(<<Number(3)>>)]),
                            b |-> Map([a |-> Number(2), b |-> Absent])]),
               recursive_update |-> TRUE, merge_lists |-> TRUE]
    /\ out = [ret |-> Map([a |-> Map([a |-> Number(2), b |-> List(<<Number(3), Number(3)>>)]),
                           b |-> Map([a |-> Number(2), b |-> Absent])]),
              exc |-> "none"]

\* C26: _dict_update raises a TypeError when dest or upd is no mapping, and
\* then both arguments are as they were handed in.
C26_TypeErrorLeavesArguments ==
    (fn = "_dict_update" /\ out # NotCalled
       /\ (~IsMapping(args.dest) \/ ~IsMapping(args.upd))) =>
        /\ out.exc = "TypeError"
        /\ argsAfter = args

\* dest is a list, upd a mapping
C26_Witness ==
    /\ fn = "_dict_update"
    /\ args.dest = List(<<Number(3)>>)
    /\ args.upd = Map([a |-> Number(2), b |-> Absent])
    /\ out.exc = "TypeError"
    /\ argsAfter = args

\* C27: dest_host is the fqdn grain, or the minion id when the fqdn is
\* blank; when that is a bad name it is the OS host name, and when the OS
\* host name has no dot or is a bad name it is the resolved IPv4 address.
\* fqdn 'localhost', OS host name 'localhost', local_ip4 '10.0.0.5' give
\* '10.0.0.5'.
C27_HostnameFallback ==
    (fn = "dest_host" /\ out # NotCalled /\ out.exc = "none") =>
        LET first == IF args.fqdn # <<>> THEN args.fqdn ELSE args.minion_id
            bad == {<<"localhost">>, <<"localhost", "localdomain">>,
                    <<"localhost6", "localdomain6">>}
            osBad == Len(args.hostname) < 2 \/ args.hostname \in bad
        IN  /\ first \notin bad => out.ret.dest_host = first
            /\ (first \in bad /\ ~osBad) => out.ret.dest_host = args.hostname
            /\ (first \in bad /\ osBad) => out.ret.dest_host = out.ret.dest_ip
            /\ (/\ args.fqdn = <<"localhost">> /\ args.hostname = <<"localhost">>
                /\ args.local_ip4 = <<"10", "0", "0", "5">>)
                 => out.ret.dest_host = <<"10", "0", "0", "5">>

\* the example of the claim
C27_Witness ==
    /\ fn = "dest_host"
    /\ args.fqdn = <<"localhost">> /\ args.hostname = <<"localhost">>
    /\ args.local_ip4 = <<"10", "0", "0", "5">>
    /\ out.exc = "none"
    /\ out.ret.dest_host = <<"10", "0", "0", "5">>

\* an address that is not empty and does not start with '127.'
NonLoopback(a) == a # <<>> /\ ~(Len(a) >= 2 /\ a[1] = "127")

\* C28: dest_ip is local_ip4 when set, else the first entry of fqdn_ip4; an
\* address that starts with '127.' is replaced by the first non-empty entry
\* of ipv4 that does not start with '127.'. dest_ip is a loopback address
\* only when ipv4 has no such entry.
C28_Ip4Resolution ==
    (fn = "dest_host" /\ out # NotCalled /\ out.exc = "none") =>
        LET others == {i \in 1..Len(args.ipv4) : NonLoopback(args.ipv4[i])}
            chosen == IF args.local_ip4 # <<>> THEN args.local_ip4 ELSE args.fqdn_ip4[1]
        IN  /\ (args.local_ip4 # <<>> \/ args.fqdn_ip4 # <<>>) =>
                 out.ret.dest_ip =
                     IF Len(chosen) >= 2 /\ chosen[1] = "127" /\ others # {}
                       THEN args.ipv4[CHOOSE i \in others : \A j \in others : i <= j]
                       ELSE chosen
            /\ (Len(out.ret.dest_ip) >= 2 /\ out.ret.dest_ip[1] = "127") => others = {}

\* no local_ip4, fqdn_ip4 is ['127.0.0.1'], ipv4 is ['', '10.0.0.5']
C28_Witness ==
    /\ fn = "dest_host"
    /\ args.local_ip4 = <<>>
    /\ args.fqdn_ip4 = <<Loopback>>
    /\ args.ipv4 = <<<<>>, <<"10", "0", "0", "5">>>>
    /\ out.exc = "none"
    /\ out.ret.dest_ip = <<"10", "0", "0", "5">>

\* C29: an event handed to batchEvent, of whatever kind, has no key whose
\* value is the empty string.
C29_NoEmptyValues ==
    (fn = "event" /\ out # NotCalled /\ out.exc = "none") =>
        \A k \in DOMAIN out.ret : out.ret[k] # Str(<<>>)

\* C30: for each configured custom field, the event holds under
\* 'custom_<name>' the looked-up value when it is a string or another scalar
\* and the comma-joined string when it is a list, and has no such key for a
\* value of any other type. (Values that are or give the empty string are
\* left to C29.)
C30_CustomFields ==
    (fn = "event" /\ out # NotCalled) =>
        \A i \in 1..Len(args.custom_fields) :
            LET v == args.config[args.custom_fields[i]]
                key == IF args.custom_fields[i] = "site" THEN "custom_site"
                                                         ELSE "custom_team"
            IN  /\ (v.t = "str" /\ v.s # <<>>) => (out.exc = "none" /\ out.ret[key] = v)
                /\ v.t = "int" => (out.exc = "none" /\ out.ret[key] = v)
                /\ (v.t = "list" /\ v.o # <<>>) =>
                     (out.exc = "none" /\ out.ret[key].t = "str" /\ out.ret[key].s # <<>>)
                /\ v.t = "dict" => (out.exc = "none" /\ out.ret[key] = Absent)

\* C39: when dest and upd share no top-level key, the flat overwrite gives
\* the mapping the per-key rule gives, for both values of merge_lists; in
\* every case upd is as it was and the mapping returned is dest itself,
\* changed in place.
C39_FastPathIsOptimisation ==
    (fn = "_dict_update" /\ out # NotCalled /\ out.exc = "none") =>
        /\ KeysOf(args.dest) \cap KeysOf(args.upd) = {} =>
              out.ret = Merged(args.dest, args.upd, args.merge_lists)
        /\ argsAfter.upd = args.upd
        /\ argsAfter.dest = out.ret

\* {a: [1,2]} with {b: {a: 2}} and merge_lists: no key on both sides, dest
\* has gained b
C39_Witness ==
    /\ fn = "_dict_update"
    /\ args.dest = Map([a |-> List(<<Number(1), Number(2)>>), b |-> Absent])
    /\ args.upd = Map([a |-> Absent, b |-> Map([a |-> Number(2), b |-> Absent])])
    /\ args.merge_lists /\ args.recursive_update
    /\ out.exc = "none"
    /\ out.ret = Map([a |-> List(<<Number(1), Number(2)>>),
                      b |-> Map([a |-> Number(2), b |-> Absent])])
    /\ argsAfter.dest = out.ret /\ argsAfter.upd = args.upd

\* C40: the result of _dedupList has no two equal elements, holds exactly
\* the distinct values of the input, and _dedupList applied to it gives it
\* back.
C40_DedupIdempotent ==
    (fn = "_dedupList" /\ out # NotCalled) =>
        /\ \A p, q \in 1..Len(out.ret) : p # q => out.ret[p] # out.ret[q]
        /\ {out.ret[p] : p \in 1..Len(out.ret)} = {args.l[i] : i \in 1..Len(args.l)}
        /\ dedupList(out.ret) = out.ret

\* [3,3,1,3,1] gives [3,1]
C40_Witness ==
    /\ fn = "_dedupList"
    /\ args.l = <<3, 3, 1, 3, 1>>
    /\ out.ret = <<3, 1>>
    /\ dedupList(out.ret) = <<3, 1>>

\* the key is written with 'password' or 'token'
Secret(key) == \E i \in 1..Len(key) : key[i] \in {"password", "token"}

RECURSIVE NoSecretKey(_)
\* no key at any depth, through dicts and lists, is a secret one
NoSecretKey(v) ==
    IF v.t = "dict"
      THEN \A k \in DOMAIN v.o[1].items :
             v.o[1].items[k] # Absent => (~Secret(k) /\ NoSecretKey(v.o[1].items[k]))
    ELSE IF v.t = "list" THEN \A i \in 1..Len(v.o) : NoSecretKey(v.o[i])
    ELSE TRUE

RECURSIVE Preserved(_, _)
\* every other key of `before` is in `later`, with its value preserved, and
\* `later` has no key besides
Preserved(before, later) ==
    IF before.t = "dict"
      THEN /\ later.t = "dict"
           /\ \A k \in DOMAIN before.o[1].items :
                IF before.o[1].items[k] = Absent \/ Secret(k) THEN later.o[1].items[k] = Absent
                ELSE Preserved(before.o[1].items[k], later.o[1].items[k])
    ELSE IF before.t = "list"
      THEN /\ later.t = "list" /\ Len(later.o) = Len(before.o)
           /\ \A i \in 1..Len(before.o) : Preserved(before.o[i], later.o[i])
    ELSE later = before

\* C31: filter_config returns a structure without any key, at any depth
\* through dicts and lists, that contains 'password' or 'token'; every other
\* key and every value that is no container is preserved, and the input is
\* as it was.
C31_FilterConfig ==
    (fn = "filter_config" /\ out # NotCalled) =>
        /\ out.exc = "none"
        /\ NoSecretKey(out.ret)
        /\ Preserved(args.opts, out.ret)
        /\ argsAfter = args

\* {user: [[{user: v, password: v, api_token: v, Token: v}]], api_token: v}
\* gives {user: [[{user: v, Token: v}]]}
C31_Witness ==
    /\ fn = "filter_config"
    /\ args.opts =
         Dict([k \in ConfKeys |->
               IF k = <<"user">>
                 THEN List(<<List(<<Dict([j \in ConfKeys |-> Str(<<"v">>)])>>)>>)
               ELSE IF k = <<"api", "token">> THEN Str(<<"v">>) ELSE Absent])
    /\ out.ret =
         Dict([k \in ConfKeys |->
               IF k = <<"user">>
                 THEN List(<<List(<<Dict([j \in ConfKeys |->
                                 IF j \in {<<"user">>, <<"Token">>} THEN Str(<<"v">>)
                                                                  ELSE Absent])>>)>>)
               ELSE Absent])

\* what C32 says of a call on a host without osquery
BaselineOrNone ==
    /\ out.exc = "none"
    /\ ~out.ret.ran
    /\ args.query_group # "day" => out.ret.returned = "None"
    /\ args.query_group = "day" =>
         /\ out.ret.returned = "list"
         /\ out.ret.entries # <<>>
         /\ out.ret.entries[1].name = "fallback_osfinger"
         /\ args.osfinger # "" => out.ret.entries[1].osfinger = args.osfinger
         /\ out.ret.entries[Len(out.ret.entries)].name = "trubble_versions"
               <=> args.report_version_with_day

\* C32 as stated: without the osquerybinpath grain, queries for the group
\* 'day' returns the baseline data, with fallback_osfinger first and
\* trubble_versions last exactly when report_version_with_day is set; for
\* any other group it returns None and runs no query.
C32_BaselineWithoutOsquery ==
    (fn = "queries" /\ out # NotCalled /\ ~args.installed) => BaselineOrNone

\* C32: the same, for a call whose query files can be had: each is read as
\* a mapping or is passed over because it is no file on disk.
C32_BaselineWhenFilesLoad ==
    (fn = "queries" /\ out # NotCalled /\ ~args.installed
       /\ args.load \in {"ok", "skipped"}) => BaselineOrNone

\* group 'day', the flag set, pkg.list_pkgs at hand: four entries
C32_Witness ==
    /\ fn = "queries"
    /\ ~args.installed /\ args.load = "ok" /\ args.query_group = "day"
    /\ args.report_version_with_day /\ args.list_pkgs
    /\ args.osfinger = "Ubuntu-16.04"
    /\ out.exc = "none"
    /\ out.ret.returned = "list"
    /\ out.ret.entries =
         <<ResultEntry("fallback_osfinger", "Ubuntu-16.04"), ResultEntry("fallback_pkgs", ""),
           ResultEntry("fallback_uptime", ""), ResultEntry("trubble_versions", "")>>

----------------------------------------------------------------------------
(* Properties of a whole run of a collector *)

\* the event lists handed to the first n flushes, joined in flush order
RECURSIVE FlushedUpTo(_)
FlushedUpTo(n) == IF n = 0 THEN <<>> ELSE FlushedUpTo(n - 1) \o flushed[n].body

\* the event batchEvent holds back while its overflow flush runs
HeldBack == IF payload # NoEvent THEN <<payload.id>> ELSE <<>>

\* the events handed to batchEvent so far, in call order
Appended == [i \in 1..(nextId - 1) |-> i]

\* C33: batching neither loses, duplicates nor reorders events: the event
\* lists handed to the flushes, joined in flush order and followed by the
\* events still pending, are the events in the order of the batchEvent
\* calls; and when a final flushBatch has returned the pending list is
\* empty, so that the flushed lists alone are the whole sequence.
C33_NoLossNoDuplicationNoReorder ==
    /\ FlushedUpTo(Len(flushed)) \o Ids(batchEvents) \o HeldBack = Appended
    /\ flushCall.ret = "None" =>
         /\ batchEvents = <<>>
         /\ payload = NoEvent
         /\ FlushedUpTo(Len(flushed)) = Appended

\* three events went out in two flushes, the second the final flushBatch
\* of the owner, which has returned
C33_Witness ==
    /\ nextId = 4
    /\ Len(flushed) = 2
    /\ flushed[1].body = <<1, 2>> /\ flushed[2].body = <<3>>
    /\ flushCall = [pending |-> 1, ret |-> "None"]
    /\ batchEvents = <<>>
    /\ pc = "idle"

\* C34: in every state of a collector the byte counter is at most
\* maxByteLength, at most the total serialized length of the pending
\* events, and 0 when nothing is pending.
C34_ByteCounter ==
    /\ currentByteLength <= maxByteLength
    /\ currentByteLength <= SumLen(batchEvents)
    /\ batchEvents = <<>> => currentByteLength = 0

\* after an overflow flush two events are pending and only the second was
\* counted: the counter is positive and below the pending bytes
C34_Witness ==
    /\ pc = "idle"
    /\ flushed # <<>>
    /\ Len(batchEvents) = 2
    /\ currentByteLength = batchEvents[2].len
    /\ currentByteLength > 0
    /\ currentByteLength < SumLen(batchEvents)

\* an event whose length as batchEvent measures it exceeds the limit alone
TooLong(e) == e.len > maxByteLength

\* the pending events that exceed the limit alone
TooLongPending == {i \in 1..Len(batchEvents) : TooLong(batchEvents[i])}

\* what batchEvent does with an event that exceeds the limit alone: it is
\* held back only while the pending events are flushed, it is appended to
\* the batch that flush left empty, it is in the body of every request of
\* the flush that takes its batch, and it leaves the pending list only as
\* part of the list of a flush
OversizedIsBatched ==
    /\ [](/\ TooLong(payload) => pc \in {"flush", "clear", "append"}
          /\ pc = "append" => batchEvents = <<>>
          /\ TooLongPending \subseteq {1}
          /\ InFlush => \A i \in TooLongPending : \A k \in 1..Len(requests) :
                            batchEvents[i].id \in BodyIds(requests[k].body))
    /\ [][/\ (pc = "append" /\ TooLong(payload)) => batchEvents' = <<payload>>
          /\ \A i \in TooLongPending :
               \/ i \in 1..Len(batchEvents') /\ batchEvents'[i] = batchEvents[i]
               \/ /\ pc = "clear"
                  /\ Len(flushed') = Len(flushed) + 1
                  /\ batchEvents[i].id \in BodyIds(flushed'[Len(flushed')].body)]_vars

\* C38 as stated: an event whose length alone exceeds maxByteLength is not
\* dropped or rejected; batchEvent flushes what is pending and appends the
\* event, and the next flush sends it: that flush makes a request, and the
\* event is in the body.
C38_OversizedIsSent ==
    /\ OversizedIsBatched
    /\ []((pc = "clear" /\ TooLongPending # {}) => requests # <<>>)

\* C38: an event whose measured length alone exceeds maxByteLength is not
\* dropped or rejected by batchEvent; batchEvent flushes what is pending
\* and appends the event, the next flush takes it, and it is in the body
\* of every request of that flush; a request is made when an endpoint is
\* still eligible at the start of that flush.
C38_OversizedIsFlushed ==
    /\ OversizedIsBatched
    /\ []((pc = "clear" /\ TooLongPending # {} /\ server_uri # <<>>) => requests # <<>>)

\* a small event was pending when an oversized one arrived: the small one
\* went out in an overflow flush and the oversized one alone in a second
\* flush, whose request carried it
C38_Witness ==
    /\ pc = "clear"
    /\ Len(flushed) = 1 /\ flushed[1].body = <<1>>
    /\ Ids(batchEvents) = <<2>>
    /\ TooLong(batchEvents[1])
    /\ requests # <<>>
    /\ requests[1].body = <<2>>

\* every endpoint of the collector has been removed as unhealthy (a
\* collector is constructed with at least one endpoint)
NoEndpointLeft == server_uri = <<>>

\* C36: when every endpoint of a collector has been removed as unhealthy,
\* no request is made any more, the endpoint list stays empty, and a
\* flushBatch of a non-empty batch still ends with the pending list empty
\* and the counter 0, so that the events of the batch are gone without
\* having been in a request.
C36_NoEndpointDiscards ==
    /\ [](NoEndpointLeft => (requests = <<>> /\ pc # "flush"))
    /\ [][NoEndpointLeft =>
            /\ NoEndpointLeft'
            /\ requests' = <<>>
            /\ pc = "clear" =>
                 /\ batchEvents # <<>>
                 /\ batchEvents' = <<>>
                 /\ currentByteLength' = 0
                 /\ flushed' = Append(flushed, [body |-> Ids(batchEvents), success |-> FALSE])]_vars

\* the first flush failed and marked the only endpoint, the second removed
\* it, and the third, started without any endpoint, has returned: the
\* third event is gone and nothing is pending
C36_Witness ==
    /\ NoEndpointLeft
    /\ pc = "idle"
    /\ Len(flushed) = 3
    /\ flushed[3] = [body |-> <<3>>, success |-> FALSE]
    /\ batchEvents = <<>>
    /\ currentByteLength = 0
    /\ marked # {}

\* a request has just been made
Requested == Len(requests') > Len(requests)

\* the urls of the endpoint list, in order
UrlsOf(uris) == [i \in 1..Len(uris) |-> uris[i].url]

\* C35: in the returners' collectors an endpoint that a generic request
\* failure has just marked unhealthy and that has retries left gets the
\* next request of the same flushBatch; an accepted request sets the flag
\* of its endpoint to healthy; and the endpoint list loses entries only
\* when a flush starts, namely those whose flag is unhealthy at that moment.
C35_MarkedEndpointIsRetried ==
    [][Returner =>
         /\ (pc = "flush" /\ response = "RequestException" /\ retries \in 0..(max_retries - 1)) =>
              /\ IsUnhealthy(LastRequest.url)
              /\ server_uri[server].url = LastRequest.url
              /\ Requested
              /\ requests'[Len(requests')].url = LastRequest.url
              /\ requests'[Len(requests')].slept = retry_sleep
         /\ (Requested /\ requests'[Len(requests')].ok) =>
              \A i \in 1..Len(server_uri') :
                  server_uri'[i].url = requests'[Len(requests')].url =>
                      server_uri'[i].healthy = TRUE
         /\ UrlsOf(server_uri') # UrlsOf(server_uri) =>
              /\ pc = "idle"
              /\ requests' = <<>>
              /\ server_uri' = SelectSeq(server_uri, LAMBDA x : x.healthy # FALSE)]_vars

\* A was marked unhealthy in the first flush and accepted a retry of the
\* same flush: it is healthy, still first in the list, and the second
\* flush is about to send its first request to it
C35_Witness ==
    /\ Returner /\ RETRY
    /\ Len(flushed) = 1 /\ flushed[1].success
    /\ marked = {"A"}
    /\ pc = "flush" /\ requests = <<>>
    /\ server = 1
    /\ server_uri[1] = [url |-> "A", healthy |-> TRUE]

----------------------------------------------------------------------------
(* Properties of returner calls in a row *)

\* the collector as its constructor leaves it
FreshCollector ==
    /\ batchEvents = <<>>
    /\ currentByteLength = 0
    /\ server_uri = [i \in 1..Len(JobServers) |-> [url |-> JobServers[i], healthy |-> TRUE]]

\* C37: when returner calls run one at a time, every flushBatch of a call
\* reads the retry flag of that call, ret['retry'], and takes its number
\* of retries from it; a call starts with the module-level RETRY as the
\* call before left it and with a collector of its own, with nothing
\* pending, the counter 0 and every configured endpoint healthy.
C37_FlushUsesOwnRetryFlag ==
    /\ [](/\ \A i \in 1..Len(uses) :
               /\ uses[i].RETRY = uses[i].own
               /\ uses[i].max_retries = IF uses[i].own THEN returner_retry_max ELSE 0
          /\ job.at = "constructed" => FreshCollector)
    /\ [][job'.no # job.no => (RETRY' = RETRY /\ FreshCollector')]_vars

\* the first call ran with the flag on and the second with the flag off;
\* the second made an overflow flush and the final flush and has returned
C37_Witness ==
    /\ job.no = 2 /\ job.at = "returned" /\ job.has /\ ~job.retry
    /\ ~RETRY
    /\ Len(uses) = 3
    /\ uses[1].job = 1 /\ uses[1].RETRY
    /\ uses[2].job = 2 /\ ~uses[2].RETRY
    /\ uses[3].job = 2 /\ ~uses[3].RETRY
    /\ returner_retry_max = 2
    /\ uses[1].max_retries = 2 /\ uses[3].max_retries = 0


====
